---- MODULE Spec2Model ----
(***************************************************************************)
(* Secure-P2P-Storage: the local shard store (src/p2p/storage.py), the     *)
(* erasure codec (src/p2p/erasure.py) and the node's store / retrieve      *)
(* pipeline (src/p2p/node.py).                                             *)
(*                                                                         *)
(* Byte strings are sequences of small numbers.  SHA-256 is modelled as an *)
(* injective tagging of the bytes hashed: equal digests mean equal bytes.  *)
(* Every store operation happens at its own instant of the clock `now`.    *)
(***************************************************************************)
EXTENDS Integers, Sequences, FiniteSets, TLC

\* ------------------------------------------------------------------ bounds
\* Number of store operations (and clock instants) explored.
MaxOps == 3
\* The quota of the shard store in bytes (max_storage_gb * 1024^3 in the
\* code, scaled down so that the quota is reached within MaxOps puts).
max_storage_bytes == 3

\* A timestamp column that is NULL / an argument that is None.
NoTime == 0 - 1
\* No bytes, no hash, no file name: what a call that returns None leaves in `ret`.
Nothing == << >>

FileHashes == {"fa", "fb"}
ShardIndices == {0, 1}
\* Shard contents offered to the store: the empty string, two different
\* one-byte strings and a two-byte string.
ShardBytes == {<< >>, <<1>>, <<2>>, <<1, 2>>}
\* expires_at values a caller passes: none, or an instant.
Expiries == {NoTime, 1, 2}

\* ------------------------------------------------------------------ transfer
\* Number of upload_shard / download_shard calls explored.
MaxCalls == 2
\* TransferService.__init__(max_retries = 3)
max_retries == 3

\* ------------------------------------------------------------------ discovery
\* Number of times the clock moves between calls on the discovery service.
MaxTicks == 2

\* ------------------------------------------------------------------ audit
\* Number of audits recorded, by the audit service and by the coordinator.
MaxAudits == 2

\* ------------------------------------------------------------------ background tasks
\* The ticks counted per background task; the count stays at this number.
MaxCount == 2

\* ------------------------------------------------------------------ node
\* shards_required and shards_total of the erasure codec (8 and 20 by default
\* in the code; the pair of the end-to-end scenarios is used here).
K == 2
N == 4
\* config.node.redundancy_factor (4 in the code)
redundancy_factor == 2
\* Byte values.  The codec works bytewise over a field; three values make
\* the smallest field in which a (2, 4) code recovers from any two shards.
Byte == {0, 1, 2}
FieldSize == Cardinality(Byte)
\* Length of the authentication tag AES-GCM appends (16 in the code).
TagLen == 1

Plaintexts == {<<1>>, <<1, 0>>}
Passwords == {"pw", "other"}
Salts == {"salt1"}
Nonces == {"nonce1"}
Self == "self"
Remote == "peerA"
ShardIdx == 0 .. (N - 1)

\* All byte strings of length n.
BytesOfLen(n) == [1 .. n -> Byte]

\* An absent (None) shard in the list handed to decode.
NoShard == <<0 - 1>>

VARIABLES
    stored,     \* the file the network holds: plaintext, password, header, ciphertext
    manifest,   \* its FileMetadata at the coordinator
    held,       \* <<peer, shard_index>> -> bytes that peer answers a shard request with
    nret,       \* the last call on the node: arguments, calls made, result or error
    disk,       \* shards directory: file name <<file_hash, shard_index, shard_hash>> -> bytes
    rows,       \* table shards of storage.db
    stats,      \* the row id = 1 of table storage_stats
    now,        \* datetime.now()
    ret,        \* the last store call: its arguments and what it returned or raised
    transfer_stats, \* TransferService.transfer_stats
    call,       \* the transfer call in progress or last returned
    db,         \* the coordinator's database: tables peers, files, audit_logs
    resp,       \* the last request the coordinator handled and its response
    discovery,  \* DiscoveryService: known_peers and last_discovery
    clock,      \* datetime.now() as the discovery service reads it, and the ticks so far
    dret,       \* the last call on the discovery service and what it returned
    audit_history, \* AuditService.audit_history
    aret,       \* the last call on the audit service and what it returned
    puts,       \* store_shard calls in progress on one store: position and locals of each
    background  \* the node's event loop and its three background tasks

storeVars == <<disk, rows, stats, now, ret>>
nodeVars == <<stored, manifest, held, nret>>
transferVars == <<transfer_stats, call>>
coordVars == <<db, resp>>
discVars == <<discovery, clock, dret>>
auditVars == <<audit_history, aret>>
concVars == <<puts>>
taskVars == <<background>>
vars == <<storeVars, nodeVars, transferVars, coordVars, discVars, auditVars, concVars, taskVars>>
\* What a step of the shard store, of the node, of the transfer service leaves alone.
notStore == <<nodeVars, transferVars, coordVars, discVars, auditVars, concVars, taskVars>>
notNode == <<storeVars, transferVars, coordVars, discVars, auditVars, concVars, taskVars>>
notTransfer == <<storeVars, nodeVars, coordVars, discVars, auditVars, concVars, taskVars>>
notCoord == <<storeVars, nodeVars, transferVars, discVars, auditVars, concVars, taskVars>>
notDisc == <<storeVars, nodeVars, transferVars, auditVars, concVars, taskVars>>
notAudit == <<storeVars, nodeVars, transferVars, discVars, concVars, taskVars>>
notConc == <<nodeVars, transferVars, coordVars, discVars, auditVars, taskVars>>
notTasks == <<storeVars, nodeVars, transferVars, coordVars, discVars, auditVars, concVars>>

\* ------------------------------------------------------------------ helpers
\* hashlib.sha256(data).hexdigest()
Sha256(data) == <<"sha256", data>>

\* f"{file_hash}_{shard_index}_{shard_hash}.shard"
FileName(file_hash, shard_index, shard_hash) == <<file_hash, shard_index, shard_hash>>

\* filename.startswith(f"{file_hash}_{shard_index}_") over os.listdir(shards_dir)
Matching(d, file_hash, shard_index) ==
    {name \in DOMAIN d : name[1] = file_hash /\ name[2] = shard_index}

\* filename.split('_')[2].replace('.shard', '')
NameHash(name) == name[3]

\* open(filepath, 'wb'); f.write(data): creates the file or replaces its bytes
WriteFile(d, name, data) ==
    [n \in (DOMAIN d) \cup {name} |-> IF n = name THEN data ELSE d[n]]

\* os.remove(filepath)
RemoveFile(d, name) == [n \in (DOMAIN d) \ {name} |-> d[n]]

RECURSIVE SumSizes(_)
\* SELECT SUM(size_bytes) FROM shards
SumSizes(rs) ==
    IF rs = {} THEN 0
    ELSE LET r == CHOOSE r \in rs : TRUE IN r.size_bytes + SumSizes(rs \ {r})

\* _check_quota with `<` for `<=`: a put that would fill the quota exactly is refused
CheckQuotaStrict(total_bytes, additional_bytes) ==
    (total_bytes + additional_bytes) < max_storage_bytes

\* _check_quota that forgets the bytes about to be added
CheckQuotaNoAdd(total_bytes, additional_bytes) ==
    total_bytes <= max_storage_bytes

\* StorageManager._check_quota
CheckQuota(total_bytes, additional_bytes) ==
    (total_bytes + additional_bytes) <= max_storage_bytes

\* StorageManager._update_stats: a positive delta counts one shard more, any
\* other delta (zero included) counts one shard less.
UpdateStats(st, size_delta) ==
    IF size_delta > 0
    THEN [st EXCEPT !.total_shards = @ + 1, !.total_bytes = @ + size_delta]
    ELSE [st EXCEPT !.total_shards = @ - 1, !.total_bytes = @ + size_delta]

\* INSERT OR REPLACE INTO shards: rows that collide with the new row on the
\* primary key shard_hash or on UNIQUE(file_hash, shard_index) are deleted.
InsertOrReplace(rs, row) ==
    {r \in rs : r.shard_hash # row.shard_hash
                /\ ~(r.file_hash = row.file_hash /\ r.shard_index = row.shard_index)}
        \cup {row}

\* StorageManager._update_verification
UpdateVerification(rs, shard_hash, t) ==
    {IF r.shard_hash = shard_hash THEN [r EXCEPT !.last_verified = t] ELSE r : r \in rs}

\* ------------------------------------------------------------------ erasure codec
\* ErasureCoder.compute_shard_hash / compute_file_hash: base64 of the SHA-256 digest
ShardHash(data) == <<"b64", Sha256(data)>>

Zeros(n) == [i \in 1 .. n |-> 0]

\* ErasureCoder.encode, padding and split into required_shards chunks
Chunks(data) ==
    LET padding_length == (K - (Len(data) % K)) % K
        padded_data == data \o Zeros(padding_length)
        chunk_size == Len(padded_data) \div K
    IN [i \in 1 .. K |-> SubSeq(padded_data, (i - 1) * chunk_size + 1, i * chunk_size)]

RECURSIVE Power(_, _)
Power(a, e) == IF e = 0 THEN 1 ELSE (a * Power(a, e - 1)) % FieldSize

RECURSIVE ParitySum(_, _, _, _)
\* Byte b of the parity shard with evaluation point a: sum of chunk_i[b] * a^(i-1)
ParitySum(chunks, a, b, i) ==
    IF i = 0 THEN 0
    ELSE (chunks[i][b] * Power(a, i - 1) + ParitySum(chunks, a, b, i - 1)) % FieldSize

\* zfec.Encoder(k, n).encode: a systematic code, shards 0..k-1 are the chunks,
\* shards k..n-1 are parity; any k shards determine the chunks.
FecEncode(chunks) ==
    [j \in 1 .. N |->
        IF j <= K THEN chunks[j]
        ELSE [b \in 1 .. Len(chunks[1]) |-> ParitySum(chunks, j - K, b, K)]]

\* ErasureCoder.encode
Encode(data) == FecEncode(Chunks(data))

\* zfec.Decoder(k, n).decode(blocks, indices): the k chunks whose encoding has
\* the given blocks at the given indices; exactly k blocks of one length.
FecDecode(valid_shards) ==
    IF \/ Len(valid_shards) # K
       \/ \E e \in 1 .. Len(valid_shards) : Len(valid_shards[e][2]) # Len(valid_shards[1][2])
    THEN [ok |-> FALSE, chunks |-> << >>]
    ELSE [ok |-> TRUE,
          chunks |-> CHOOSE c \in [1 .. K -> BytesOfLen(Len(valid_shards[1][2]))] :
                        \A e \in 1 .. K :
                            FecEncode(c)[valid_shards[e][1] + 1] = valid_shards[e][2]]

RECURSIVE Join(_, _)
\* b''.join(decoded_chunks)
Join(chunks, n) == IF n = 0 THEN << >> ELSE Join(chunks, n - 1) \o chunks[n]

RECURSIVE RStripZeros(_)
\* reconstructed.rstrip(b'\0')
RStripZeros(data) ==
    IF data = << >> \/ data[Len(data)] # 0 THEN data
    ELSE RStripZeros(SubSeq(data, 1, Len(data) - 1))

\* ErasureCoder.decode
Decode(shards) ==
    LET valid_shards == SelectSeq(shards, LAMBDA e : e[2] # NoShard)
    IN IF Len(valid_shards) < K
       THEN [ok |-> FALSE, error |-> "InsufficientShards", value |-> Nothing]
       ELSE LET r == FecDecode(valid_shards)
            IN IF ~r.ok
               THEN [ok |-> FALSE, error |-> "FecError", value |-> Nothing]
               ELSE [ok |-> TRUE, error |-> "", value |-> RStripZeros(Join(r.chunks, K))]

\* ------------------------------------------------------------------ encryption
\* CryptoUtils.derive_key: PBKDF2 is a function of password and salt
DeriveKey(password, salt) == <<"pbkdf2", password, salt>>

\* FileEncryptor.encrypt_file: returns (ciphertext, metadata), in this order.
\* The salt and the nonce are drawn at random; the ciphertext is whatever
\* AES-GCM yields, len(file_data) bytes and the tag.
EncryptFile(file_data, password) ==
    {<<[type |-> "bytes", v |-> ciphertext],
       [type |-> "dict", v |-> [salt |-> salt, nonce |-> nonce,
                                original_size |-> Len(file_data),
                                encrypted_size |-> Len(ciphertext)]]>> :
        salt \in Salts, nonce \in Nonces,
        ciphertext \in BytesOfLen(Len(file_data) + TagLen)}

\* CryptoUtils.decrypt_data: AES-GCM opens a ciphertext only under the key
\* and nonce it was sealed with; anything else raises InvalidTag.
DecryptData(encrypted_obj, key) ==
    IF /\ key = DeriveKey(stored.password, stored.salt)
       /\ encrypted_obj.nonce = stored.nonce
       /\ encrypted_obj.ciphertext = stored.ciphertext
    THEN [ok |-> TRUE, error |-> "", value |-> stored.plaintext]
    ELSE [ok |-> FALSE, error |-> "InvalidTag", value |-> Nothing]

\* FileEncryptor.decrypt_file: any exception becomes
\* ValueError("Decryption failed - incorrect password or corrupted data")
DecryptFile(encrypted_data, password, metadata) ==
    LET key == DeriveKey(password, metadata.salt)
        r == DecryptData([ciphertext |-> encrypted_data, nonce |-> metadata.nonce], key)
    IN IF r.ok THEN r ELSE [ok |-> FALSE, error |-> "Integrity", value |-> Nothing]

\* A call of decrypt_file(encrypted_data, password, metadata) with the
\* positional arguments `args`: Python raises TypeError at the call when a
\* required argument is missing, before the body (and its try) is entered.
DecryptFileCall(args) ==
    IF Len(args) < 3
    THEN [ok |-> FALSE, error |-> "TypeError", value |-> Nothing]
    ELSE DecryptFile(args[1], args[2], args[3])

\* A call of ErasureCoder.encode(data): `data + b'\0' * padding_length` raises
\* TypeError unless data is a bytes object.
EncodeCall(data) ==
    IF data.type = "bytes"
    THEN [ok |-> TRUE, error |-> "", shards |-> Encode(data.v)]
    ELSE [ok |-> FALSE, error |-> "TypeError", shards |-> << >>]

\* ------------------------------------------------------------------ store
\* TransferService.__init__: counters at zero, no transfer under way.
TransferIdle ==
    /\ transfer_stats = [uploads |-> 0, downloads |-> 0, bytes_sent |-> 0,
                         bytes_received |-> 0, failures |-> 0]
    /\ call = [op |-> "none", status |-> "returned"]

\* Base.metadata.create_all on a new database: empty tables, no request yet.
CoordInit ==
    /\ db = [peers |-> << >>, files |-> << >>, audit_logs |-> << >>]
    /\ resp = [op |-> "none"]

\* DiscoveryService.__init__: nothing known, nothing discovered yet.
DiscoveryIdle ==
    /\ discovery = [known_peers |-> << >>, last_discovery |-> NoTime]
    /\ clock = [now |-> 0, ticks |-> 0]
    /\ dret = [op |-> "none"]

\* AuditService.__init__: no audit made yet.
AuditIdle ==
    /\ audit_history = << >>
    /\ aret = [op |-> "none"]

\* The callers that put into one shard store at the same time.
Callers == {1, 2}
\* No store_shard call in progress.
PutsIdle == puts = [c \in Callers |-> [pc |-> "idle"]]

\* The three coroutines P2PNode.start hands to asyncio.create_task.
TaskNames == {"heartbeat", "discovery", "audit"}
\* P2PNode.__init__: start not called, no event loop, no task created.
TasksIdle == background = [loop |-> "none", launcher |-> "none",
                      task |-> [t \in TaskNames |-> [pc |-> "none", last |-> "none", ticks |-> 0]]]

\* No file in the network, no call made yet.
NodeIdle ==
    /\ stored = [plaintext |-> << >>, password |-> "", salt |-> "", nonce |-> "",
                 ciphertext |-> << >>]
    /\ manifest = [file_hash |-> Nothing]
    /\ held = << >>
    /\ nret = [op |-> "none"]

\* StorageManager.__init__ / _init_database: empty directory, empty table,
\* statistics row with its column defaults.
StoreInit ==
    /\ disk = << >>
    /\ rows = {}
    /\ stats = [total_shards |-> 0, total_bytes |-> 0, last_gc |-> NoTime]
    /\ now = 0
    /\ ret = [op |-> "none"]

\* StorageManager.store_shard, every step succeeding or the quota refusing it.
StoreShard(file_hash, shard_index, shard_data, expires_at) ==
    /\ now < MaxOps
    /\ now' = now + 1
    /\ IF ~CheckQuota(stats.total_bytes, Len(shard_data))
       THEN /\ ret' = [op |-> "put", file_hash |-> file_hash, shard_index |-> shard_index,
                       data |-> shard_data, outcome |-> "QuotaExceeded", value |-> Nothing]
            /\ UNCHANGED <<disk, rows, stats>>
       ELSE LET shard_hash == Sha256(shard_data)
                row == [shard_hash |-> shard_hash, file_hash |-> file_hash,
                        shard_index |-> shard_index, size_bytes |-> Len(shard_data),
                        stored_at |-> now, last_verified |-> now,
                        expires_at |-> expires_at]
            IN /\ disk' = WriteFile(disk, FileName(file_hash, shard_index, shard_hash), shard_data)
               /\ rows' = InsertOrReplace(rows, row)
               /\ stats' = UpdateStats(stats, Len(shard_data))
               /\ ret' = [op |-> "put", file_hash |-> file_hash, shard_index |-> shard_index,
                          data |-> shard_data, outcome |-> "ok", value |-> shard_hash]

\* StorageManager.retrieve_shard: the first matching name os.listdir yields is
\* the only file looked at; listdir's order is arbitrary.
RetrieveShard(file_hash, shard_index) ==
    /\ now < MaxOps
    /\ now' = now + 1
    /\ UNCHANGED <<disk, stats>>
    /\ IF Matching(disk, file_hash, shard_index) = {}
       THEN /\ ret' = [op |-> "get", file_hash |-> file_hash, shard_index |-> shard_index,
                       outcome |-> "NotFound", filename |-> Nothing, value |-> Nothing]
            /\ UNCHANGED rows
       ELSE \E filename \in Matching(disk, file_hash, shard_index) :
              LET shard_data == disk[filename]
                  shard_hash == NameHash(filename)
              IN IF Sha256(shard_data) # shard_hash
                 THEN /\ ret' = [op |-> "get", file_hash |-> file_hash,
                                 shard_index |-> shard_index, outcome |-> "CorruptShard",
                                 filename |-> filename, value |-> Nothing]
                      /\ UNCHANGED rows
                 ELSE /\ rows' = UpdateVerification(rows, shard_hash, now)
                      /\ ret' = [op |-> "get", file_hash |-> file_hash,
                                 shard_index |-> shard_index, outcome |-> "ok",
                                 filename |-> filename, value |-> shard_data]

\* The effect of StorageManager.delete_shard on (directory, table, statistics)
\* when `filename` is the first match of listdir.
DeleteEffect(d, rs, st, filename) ==
    [disk |-> RemoveFile(d, filename),
     rows |-> {r \in rs : r.shard_hash # NameHash(filename)},
     stats |-> UpdateStats(st, 0 - Len(d[filename]))]

\* StorageManager.delete_shard
DeleteShard(file_hash, shard_index) ==
    /\ now < MaxOps
    /\ now' = now + 1
    /\ IF Matching(disk, file_hash, shard_index) = {}
       THEN /\ ret' = [op |-> "delete", file_hash |-> file_hash,
                       shard_index |-> shard_index, outcome |-> "ok", value |-> FALSE]
            /\ UNCHANGED <<disk, rows, stats>>
       ELSE \E filename \in Matching(disk, file_hash, shard_index) :
              LET e == DeleteEffect(disk, rows, stats, filename)
              IN /\ disk' = e.disk
                 /\ rows' = e.rows
                 /\ stats' = e.stats
                 /\ ret' = [op |-> "delete", file_hash |-> file_hash,
                            shard_index |-> shard_index, outcome |-> "ok", value |-> TRUE]

RECURSIVE GcOutcomes(_, _, _, _, _)
\* The loop of garbage_collect over the expired rows it fetched: one
\* delete_shard(file_hash, shard_index) per row, in the order the SELECT
\* returned them (no ORDER BY) and each on the first match of listdir.
GcOutcomes(d, rs, st, pending, removed) ==
    IF pending = {}
    THEN {[disk |-> d, rows |-> rs, stats |-> st, removed |-> removed]}
    ELSE UNION {
           LET m == Matching(d, p[1], p[2])
           IN IF m = {}
              THEN GcOutcomes(d, rs, st, pending \ {p}, removed)
              ELSE UNION {
                     LET e == DeleteEffect(d, rs, st, filename)
                     IN GcOutcomes(e.disk, e.rows, e.stats, pending \ {p}, removed + 1)
                     : filename \in m}
           : p \in pending}

\* WHERE expires_at IS NOT NULL AND expires_at < now
Expired(rs, t) == {r \in rs : r.expires_at # NoTime /\ r.expires_at < t}

\* StorageManager.garbage_collect
GarbageCollect ==
    /\ now < MaxOps
    /\ now' = now + 1
    /\ LET pending == {<<r.file_hash, r.shard_index>> : r \in Expired(rows, now)}
       IN \E o \in GcOutcomes(disk, rows, stats, pending, 0) :
            /\ disk' = o.disk
            /\ rows' = o.rows
            /\ stats' = [o.stats EXCEPT !.last_gc = now]
            /\ ret' = [op |-> "gc", outcome |-> "ok", value |-> o.removed]

Put ==
    /\ \E f \in FileHashes, i \in ShardIndices, b \in ShardBytes, e \in Expiries :
          StoreShard(f, i, b, e)
    /\ UNCHANGED notStore

Get ==
    /\ \E f \in FileHashes, i \in ShardIndices : RetrieveShard(f, i)
    /\ UNCHANGED notStore

Delete ==
    /\ \E f \in FileHashes, i \in ShardIndices : DeleteShard(f, i)
    /\ UNCHANGED notStore

Gc == GarbageCollect /\ UNCHANGED notStore

StoreNext == Put \/ Get \/ Delete \/ Gc

\* The shard store alone: the node makes no call.
Init == StoreInit /\ PutsIdle /\ TasksIdle /\ NodeIdle /\ TransferIdle /\ CoordInit /\ DiscoveryIdle /\ AuditIdle

StoreSpec == Init /\ [][StoreNext]_vars

\* ------------------------------------------------------------------ store, with faults
RECURSIVE Prefixes(_)
\* The bytes a write that fails part-way may have left in the file.
Prefixes(data) ==
    IF data = << >> THEN {}
    ELSE LET shorter == SubSeq(data, 1, Len(data) - 1)
         IN {shorter} \cup Prefixes(shorter)

\* StorageManager.store_shard when a step after the quota check raises: the
\* except clause logs and re-raises, it undoes nothing.
\*   "open":  open(filepath, 'wb') raises, no file is created or truncated;
\*   "write": f.write raises after the file was created or truncated;
\*   "index": sqlite raises (connect, INSERT, UPDATE or commit) after the file
\*            was written and closed; the transaction is never committed.
StoreShardFails(file_hash, shard_index, shard_data, point) ==
    /\ now < MaxOps
    /\ now' = now + 1
    /\ CheckQuota(stats.total_bytes, Len(shard_data))
    /\ UNCHANGED <<rows, stats>>
    /\ LET filename == FileName(file_hash, shard_index, Sha256(shard_data))
       IN CASE point = "open" -> UNCHANGED disk
            [] point = "write" ->
                 \E partial \in Prefixes(shard_data) :
                    disk' = WriteFile(disk, filename, partial)
            [] point = "index" -> disk' = WriteFile(disk, filename, shard_data)
    /\ ret' = [op |-> "put", file_hash |-> file_hash, shard_index |-> shard_index,
               data |-> shard_data,
               outcome |-> IF point = "index" THEN "DBError" ELSE "IOError",
               value |-> Nothing]

PutFails ==
    /\ \E f \in FileHashes, i \in ShardIndices, b \in ShardBytes,
          point \in {"open", "write", "index"} :
          StoreShardFails(f, i, b, point)
    /\ UNCHANGED notStore

\* The environment damages a shard file in place: its bytes change, its name
\* does not.
Corrupt ==
    /\ now < MaxOps
    /\ now' = now + 1
    /\ \E filename \in DOMAIN disk, damaged \in ShardBytes :
          /\ damaged # disk[filename]
          /\ disk' = [disk EXCEPT ![filename] = damaged]
    /\ ret' = [op |-> "corrupt"]
    /\ UNCHANGED <<rows, stats>>
    /\ UNCHANGED notStore

FaultNext == StoreNext \/ PutFails \/ Corrupt

FaultSpec == Init /\ [][FaultNext]_vars

\* ------------------------------------------------------------------ store, concurrent puts
\* Shard contents of the concurrent puts: those of the store and a second
\* two-byte string, so that two different shards fill more than the quota.
PutBytes == ShardBytes \cup {<<2, 1>>}

\* A caller enters store_shard(file_hash, 0, shard_data).
CallStoreShard(c, file_hash, shard_data) ==
    /\ puts[c].pc = "idle"
    /\ puts' = [puts EXCEPT ![c] = [pc |-> "quota", file_hash |-> file_hash,
                                    shard_index |-> 0, data |-> shard_data]]
    /\ UNCHANGED <<disk, rows, stats>>

\* store_shard, `if not self._check_quota(len(shard_data))`: get_storage_stats
\* reads the committed statistics row on a connection of its own.
ReadQuota(c) ==
    /\ puts[c].pc = "quota"
    /\ puts' = [puts EXCEPT ![c] =
                  IF CheckQuota(stats.total_bytes, Len(puts[c].data))
                  THEN [@ EXCEPT !.pc = "write"]
                  ELSE [@ EXCEPT !.pc = "done"] @@ [outcome |-> "QuotaExceeded"]]
    /\ UNCHANGED <<disk, rows, stats>>

\* store_shard, open(filepath, 'wb') and f.write(shard_data)
WriteShardFile(c) ==
    /\ puts[c].pc = "write"
    /\ disk' = WriteFile(disk, FileName(puts[c].file_hash, puts[c].shard_index,
                                        Sha256(puts[c].data)), puts[c].data)
    /\ puts' = [puts EXCEPT ![c] = [@ EXCEPT !.pc = "upsert"]]
    /\ UNCHANGED <<rows, stats>>

\* store_shard, INSERT OR REPLACE on the call's own connection: the statement
\* opens a write transaction, which sqlite grants to one connection at a
\* time; the other call waits for the commit.  The row is not visible to
\* other connections before the commit.
UpsertRow(c) ==
    /\ puts[c].pc = "upsert"
    /\ \A d \in Callers \ {c} : puts[d].pc \notin {"stats", "commit"}
    /\ LET row == [shard_hash |-> Sha256(puts[c].data), file_hash |-> puts[c].file_hash,
                   shard_index |-> puts[c].shard_index, size_bytes |-> Len(puts[c].data),
                   stored_at |-> now, last_verified |-> now, expires_at |-> NoTime]
       IN puts' = [puts EXCEPT ![c] =
                     [@ EXCEPT !.pc = "stats"] @@ [rows |-> InsertOrReplace(rows, row)]]
    /\ UNCHANGED <<disk, rows, stats>>

\* store_shard, self._update_stats(conn, len(shard_data)) in the same transaction
UpdateStatsRow(c) ==
    /\ puts[c].pc = "stats"
    /\ puts' = [puts EXCEPT ![c] =
                  [@ EXCEPT !.pc = "commit"] @@ [stats |-> UpdateStats(stats, Len(puts[c].data))]]
    /\ UNCHANGED <<disk, rows, stats>>

\* store_shard, conn.commit(): row and statistics become visible together
CommitPut(c) ==
    /\ puts[c].pc = "commit"
    /\ rows' = puts[c].rows
    /\ stats' = puts[c].stats
    /\ puts' = [puts EXCEPT ![c] = [pc |-> "done", file_hash |-> puts[c].file_hash,
                                    shard_index |-> puts[c].shard_index,
                                    data |-> puts[c].data, outcome |-> "ok"]]
    /\ UNCHANGED disk

EnterPut ==
    /\ \E c \in Callers, f \in FileHashes, b \in PutBytes : CallStoreShard(c, f, b)
    /\ UNCHANGED <<now, ret, notConc>>

QuotaStep == (\E c \in Callers : ReadQuota(c)) /\ UNCHANGED <<now, ret, notConc>>

WriteStep == (\E c \in Callers : WriteShardFile(c)) /\ UNCHANGED <<now, ret, notConc>>

UpsertStep == (\E c \in Callers : UpsertRow(c)) /\ UNCHANGED <<now, ret, notConc>>

StatsStep == (\E c \in Callers : UpdateStatsRow(c)) /\ UNCHANGED <<now, ret, notConc>>

CommitStep == (\E c \in Callers : CommitPut(c)) /\ UNCHANGED <<now, ret, notConc>>

ConcNext == EnterPut \/ QuotaStep \/ WriteStep \/ UpsertStep \/ StatsStep \/ CommitStep

\* Two callers on one empty store, each making one put.
ConcSpec == Init /\ [][ConcNext]_vars

\* ------------------------------------------------------------------ background tasks
\* How a node is started: `p2p start` (cli.py: asyncio.run(node.start(port))),
\* scripts/start_node.py (asyncio.run(main()), main awaiting node.start()), or
\* P2PClient.start awaited on the event loop of a host program that goes on
\* running it.
Launchers == {"cli", "script", "embedded"}

\* What the action of a tick ends in.  _register_with_coordinator catches
\* every exception itself; discover_peers is called without its `session`
\* argument and perform_audits is no method of AuditService, so these two
\* raise TypeError and AttributeError at every tick.
TickOutcome(t) == IF t = "heartbeat" THEN "ok" ELSE "failed"

\* P2PNode.start run to its return on a new event loop: the three coroutines
\* are handed to asyncio.create_task and start sleeping.
Launch(launcher) ==
    /\ background.loop = "none"
    /\ background' = [loop |-> "running", launcher |-> launcher,
                      task |-> [t \in TaskNames |->
                                  [pc |-> "sleep", last |-> "none", ticks |-> 0]]]

\* asyncio.run returns once the coroutine it was given has returned: it
\* cancels every task still pending on its loop and closes the loop.
\* node.start awaits nothing after create_task, so no sleep has elapsed.
RunReturns ==
    /\ background.loop = "running"
    /\ background.launcher \in {"cli", "script"}
    /\ background' = [background EXCEPT
                        !.loop = "closed",
                        !.task = [t \in TaskNames |-> [@[t] EXCEPT !.pc = "cancelled"]]]

\* `await asyncio.sleep(...)` of a task returns; only a loop that is still
\* run gets there.
Wake(t) ==
    /\ background.loop = "running"
    /\ background.launcher = "embedded"
    /\ background.task[t].pc = "sleep"
    /\ background' = [background EXCEPT !.task[t].pc = "action"]

\* The try/except of a loop body: the action returns or raises, `except
\* Exception` logs, and the task goes back to its sleep.
TaskTick(t) ==
    /\ background.loop = "running"
    /\ background.task[t].pc = "action"
    /\ background' = [background EXCEPT
                        !.task[t] = [pc |-> "sleep", last |-> TickOutcome(t),
                                     ticks |-> IF @.ticks < MaxCount
                                               THEN @.ticks + 1 ELSE @.ticks]]

StartNode == (\E launcher \in Launchers : Launch(launcher)) /\ UNCHANGED notTasks

EndRun == RunReturns /\ UNCHANGED notTasks

SleepEnds == (\E t \in TaskNames : Wake(t)) /\ UNCHANGED notTasks

TickEnds == (\E t \in TaskNames : TaskTick(t)) /\ UNCHANGED notTasks

TasksNext == StartNode \/ EndRun \/ SleepEnds \/ TickEnds

\* The event loop runs every callback that is ready: a node that can be
\* started is started, a sleep that is over returns, an action that was
\* awaited ends, and asyncio.run returns.
TasksFair ==
    /\ WF_vars(StartNode) /\ WF_vars(EndRun)
    /\ \A t \in TaskNames : WF_vars(Wake(t) /\ UNCHANGED notTasks)
                            /\ WF_vars(TaskTick(t) /\ UNCHANGED notTasks)

TasksSpec == Init /\ [][TasksNext]_vars /\ TasksFair

\* ------------------------------------------------------------------ node pipeline
\* The FileMetadata store_file builds for a ciphertext and its shards.
ManifestOf(ciphertext, total_size, shard_locations) ==
    LET shards == Encode(ciphertext)
    IN [file_hash |-> ShardHash(ciphertext),
        total_size |-> total_size,
        encrypted_size |-> Len(ciphertext),
        shards_total |-> Len(shards),
        shards_required |-> K,
        shard_hashes |-> [j \in 1 .. Len(shards) |-> ShardHash(shards[j])],
        shard_locations |-> shard_locations]

\* What the node leaves in nret.
NodeRet(op, arg, password, verifiable, calls, r) ==
    [op |-> op, arg |-> arg, password |-> password, verifiable |-> verifiable,
     calls |-> calls, status |-> IF r.ok THEN "ok" ELSE "error",
     error |-> r.error, value |-> r.value]

\* The network holds one file: its ciphertext was encoded by ErasureCoder,
\* every shard is on the storing node and on one remote peer, and the
\* manifest is registered with the coordinator.
NodeInit ==
    /\ \E x \in Plaintexts, salt \in Salts, nonce \in Nonces :
         \E ciphertext \in BytesOfLen(Len(x) + TagLen) :
            /\ stored = [plaintext |-> x, password |-> "pw", salt |-> salt,
                         nonce |-> nonce, ciphertext |-> ciphertext]
            /\ manifest = ManifestOf(ciphertext, Len(x),
                                     [i \in ShardIdx |-> <<Self, Remote>>])
            /\ held = [h \in {Self, Remote} \X ShardIdx |-> Encode(ciphertext)[h[2] + 1]]
    /\ nret = [op |-> "none"]

\* self._get_file_metadata(file_hash): the manifest the coordinator holds
GetFileMetadata == manifest

\* self.transfer.request_shard(peer_id, file_hash, shard_index): the bytes
\* the peer holds for the shard, or an exception when it has none.
RequestShard(peer_id, shard_index) ==
    IF <<peer_id, shard_index>> \in DOMAIN held
    THEN [ok |-> TRUE, data |-> held[<<peer_id, shard_index>>]]
    ELSE [ok |-> FALSE, data |-> Nothing]

\* an inner loop that takes the bytes of the first peer that answers, without
\* comparing their hash with the manifest's
TryPeersUnverified(metadata, shard_index, peers, shards) ==
    LET answering == {e \in 1 .. Len(peers) : RequestShard(peers[e], shard_index).ok}
        first == CHOOSE e \in answering : \A d \in answering : e <= d
    IN IF answering = {} THEN shards
       ELSE Append(shards, <<shard_index, RequestShard(peers[first], shard_index).data>>)

RECURSIVE TryPeers(_, _, _, _)
\* _collect_shards, inner loop: the peers listed for a shard, in order, until
\* one returns bytes with the manifest's hash; exceptions are logged.
TryPeers(metadata, shard_index, peers, shards) ==
    IF peers = << >> THEN shards
    ELSE LET r == RequestShard(Head(peers), shard_index)
         IN IF r.ok /\ ShardHash(r.data) = metadata.shard_hashes[shard_index + 1]
            THEN Append(shards, <<shard_index, r.data>>)
            ELSE TryPeers(metadata, shard_index, Tail(peers), shards)

RECURSIVE CollectLoop(_, _, _)
\* _collect_shards, outer loop over range(shards_total), left as soon as
\* shards_required shards are in hand.
CollectLoop(metadata, shard_index, shards) ==
    IF shard_index >= metadata.shards_total \/ Len(shards) >= metadata.shards_required
    THEN shards
    ELSE CollectLoop(metadata, shard_index + 1,
                     TryPeers(metadata, shard_index,
                              IF shard_index \in DOMAIN metadata.shard_locations
                              THEN metadata.shard_locations[shard_index] ELSE << >>,
                              shards))

\* _collect_shards without its final length check
CollectShardsUnchecked(metadata) ==
    [ok |-> TRUE, error |-> "", shards |-> CollectLoop(metadata, 0, << >>)]

\* P2PNode._collect_shards
CollectShards(metadata) ==
    LET shards == CollectLoop(metadata, 0, << >>)
    IN IF Len(shards) < metadata.shards_required
       THEN [ok |-> FALSE, error |-> "InsufficientShards", shards |-> shards]
       ELSE [ok |-> TRUE, error |-> "", shards |-> shards]

\* The shard indices for which some listed peer answers with bytes that have
\* the manifest's hash.
Verifiable ==
    {i \in ShardIdx : \E e \in 1 .. Len(manifest.shard_locations[i]) :
        LET peer == manifest.shard_locations[i][e]
        IN /\ <<peer, i>> \in DOMAIN held
           /\ ShardHash(held[<<peer, i>>]) = manifest.shard_hashes[i + 1]}

\* P2PNode.store_file.  encrypt_file returns (ciphertext, metadata) and the
\* pipeline unpacks it as (encryption_key, encrypted_data): what goes to the
\* codec is the metadata dict.
StoreFile(file_data, password) ==
    \E r \in EncryptFile(file_data, password) :
       LET encryption_key == r[1]
           encrypted_data == r[2]
           e == EncodeCall(encrypted_data)
       IN IF ~e.ok
          THEN /\ nret' = NodeRet("store", file_data, password, {},
                                  <<"encrypt_file", "encode">>,
                                  [ok |-> FALSE, error |-> e.error, value |-> Nothing])
               /\ UNCHANGED <<stored, manifest, held>>
          ELSE /\ manifest' = ManifestOf(encrypted_data.v, Len(file_data),
                                         [i \in ShardIdx |-> <<Self>>])
               /\ held' = [h \in {Self} \X ShardIdx |-> e.shards[h[2] + 1]]
               /\ stored' = [plaintext |-> file_data, password |-> password,
                             salt |-> encryption_key.v.salt,
                             nonce |-> encryption_key.v.nonce,
                             ciphertext |-> encrypted_data.v]
               /\ nret' = NodeRet("store", file_data, password, {},
                                  <<"encrypt_file", "encode", "save_shard",
                                    "_distribute_shards", "_register_file_metadata">>,
                                  [ok |-> TRUE, error |-> "",
                                   value |-> ShardHash(encrypted_data.v)])

\* P2PNode.retrieve_file
RetrieveFile(password) ==
    /\ UNCHANGED <<stored, manifest, held>>
    /\ LET metadata == GetFileMetadata
           c == CollectShards(metadata)
           d == Decode(c.shards)
           f == DecryptFileCall(<<d.value, password>>)
       IN IF ~c.ok
          THEN nret' = NodeRet("retrieve", c.shards, password, Verifiable,
                               <<"_get_file_metadata", "_collect_shards">>,
                               [ok |-> FALSE, error |-> c.error, value |-> Nothing])
          ELSE IF ~d.ok
          THEN nret' = NodeRet("retrieve", c.shards, password, Verifiable,
                               <<"_get_file_metadata", "_collect_shards", "decode">>, d)
          ELSE nret' = NodeRet("retrieve", c.shards, password, Verifiable,
                               <<"_get_file_metadata", "_collect_shards", "decode",
                                 "decrypt_file">>, f)

\* The network as NodeInit leaves it: every copy of every shard in place.
Pristine ==
    held = [h \in {Self, Remote} \X ShardIdx |-> Encode(stored.ciphertext)[h[2] + 1]]

\* ErasureCoder.decode called on a list of (index, shard) pairs, some absent.
DecodeShards(shards) ==
    /\ UNCHANGED <<stored, manifest, held>>
    /\ nret' = NodeRet("decode", shards, "", {}, <<"decode">>, Decode(shards))

RECURSIVE ShardLists(_)
\* Lists of (index, shard-or-None) over the indices from i on, ascending, each
\* index left out, absent or present with the stored file's shard.
ShardLists(i) ==
    IF i >= N THEN {<< >>}
    ELSE LET rest == ShardLists(i + 1)
             shard == Encode(stored.ciphertext)[i + 1]
         IN rest \cup {<<<<i, NoShard>>>> \o l : l \in rest}
                 \cup {<<<<i, shard>>>> \o l : l \in rest}

\* No call outstanding on the node.
NoCall == [op |-> "none"]

\* Every peer loses shard i (deleted from the global set).
LoseShard(i) ==
    /\ \E peer \in {Self, Remote} : <<peer, i>> \in DOMAIN held
    /\ held' = [h \in {g \in DOMAIN held : g[2] # i} |-> held[h]]
    /\ nret' = NoCall
    /\ UNCHANGED <<stored, manifest>>

\* The copy of shard i on the host listed first is damaged: its first byte
\* changes.  The copy on the other host stays as stored.
PeerCorrupts(i) ==
    /\ <<Self, i>> \in DOMAIN held
    /\ held[<<Self, i>>] = Encode(stored.ciphertext)[i + 1]
    /\ held' = [held EXCEPT ![<<Self, i>>] = [@ EXCEPT ![1] = (@ + 1) % FieldSize]]
    /\ nret' = NoCall
    /\ UNCHANGED <<stored, manifest>>

Store ==
    /\ \E x \in Plaintexts, p \in Passwords : StoreFile(x, p)
    /\ UNCHANGED notNode

Retrieve ==
    /\ \E p \in Passwords : RetrieveFile(p)
    /\ UNCHANGED notNode

\* decode reads nothing of the network: its calls are explored from the
\* pristine network only.
DecodeCall ==
    /\ Pristine
    /\ \E l \in ShardLists(0) : DecodeShards(l)
    /\ UNCHANGED notNode

Lose ==
    /\ \E i \in ShardIdx : LoseShard(i)
    /\ UNCHANGED notNode

Damage ==
    /\ \E i \in ShardIdx : PeerCorrupts(i)
    /\ UNCHANGED notNode

NodeNext == Store \/ Retrieve \/ DecodeCall \/ Lose \/ Damage

\* The node with one file in the network and an empty shard store.
NodeSpecInit == NodeInit /\ StoreInit /\ PutsIdle /\ TasksIdle /\ TransferIdle /\ CoordInit /\ DiscoveryIdle /\ AuditIdle

NodeSpec == NodeSpecInit /\ [][NodeNext]_vars

\* ------------------------------------------------------------------ store pipeline, steps 5 to 7
\* store_file from its step 5 on, entered with the ciphertext of the file as
\* encrypted_data and its shards encoded.  nret is the position in
\* store_file: the step, the loop index and the shard_locations built so far.
\* The shards directory of ShardManager is the shards directory of
\* StorageManager (both are data_dir/shards).
PipelinePos(pc, i, shard_locations) ==
    [op |-> "store_file", pc |-> pc, i |-> i, shard_locations |-> shard_locations]

PipelineInit ==
    /\ \E x \in Plaintexts, salt \in Salts, nonce \in Nonces :
         \E ciphertext \in BytesOfLen(Len(x) + TagLen) :
            stored = [plaintext |-> x, password |-> "pw", salt |-> salt,
                      nonce |-> nonce, ciphertext |-> ciphertext]
    /\ manifest = [file_hash |-> Nothing]
    /\ held = << >>
    /\ nret = PipelinePos("save_shard", 0, << >>)
    /\ StoreInit /\ PutsIdle /\ TasksIdle
    /\ TransferIdle
    /\ CoordInit
    /\ DiscoveryIdle
    /\ AuditIdle

\* Step 5 without its shard_locations[i] = [self.state.peer_id]
SaveShardUnlisted(i) ==
    LET shard == Encode(stored.ciphertext)[i + 1]
        file_hash == ShardHash(stored.ciphertext)
    IN /\ nret.op = "store_file" /\ nret.pc = "save_shard" /\ nret.i = i
       /\ disk' = WriteFile(disk, FileName(file_hash, i, ShardHash(shard)), shard)
       /\ held' = [h \in (DOMAIN held) \cup {<<Self, i>>} |->
                      IF h = <<Self, i>> THEN shard ELSE held[h]]
       /\ nret' = PipelinePos(IF i + 1 < N THEN "save_shard" ELSE "distribute",
                              IF i + 1 < N THEN i + 1 ELSE 0,
                              [j \in 0 .. i |-> IF j = i THEN << >> ELSE nret.shard_locations[j]])
       /\ UNCHANGED <<stored, manifest, rows, stats, now, ret, transferVars, coordVars, discVars, auditVars, concVars, taskVars>>

\* Step 5, one turn of the loop: ShardManager.save_shard writes the shard
\* file (no index row, no statistics) and self is listed for the shard.
SaveShard(i) ==
    LET shard == Encode(stored.ciphertext)[i + 1]
        file_hash == ShardHash(stored.ciphertext)
    IN /\ nret.op = "store_file" /\ nret.pc = "save_shard" /\ nret.i = i
       /\ disk' = WriteFile(disk, FileName(file_hash, i, ShardHash(shard)), shard)
       /\ held' = [h \in (DOMAIN held) \cup {<<Self, i>>} |->
                      IF h = <<Self, i>> THEN shard ELSE held[h]]
       /\ nret' = PipelinePos(IF i + 1 < N THEN "save_shard" ELSE "distribute",
                              IF i + 1 < N THEN i + 1 ELSE 0,
                              [j \in 0 .. i |-> IF j = i THEN <<Self>> ELSE nret.shard_locations[j]])
       /\ UNCHANGED <<stored, manifest, rows, stats, now, ret, transferVars, coordVars, discVars, auditVars, concVars, taskVars>>

\* self.discovery.get_available_peers(): the peers the coordinator knows
GetAvailablePeers == <<Self, Remote>>

\* Step 6, one turn of the outer loop of _distribute_shards: the shard is
\* sent to every selected peer other than self; a peer is appended to the
\* shard's locations when send_shard returns success, an exception is logged.
DistributeShard(i, success) ==
    LET shard == Encode(stored.ciphertext)[i + 1]
        selected_peers == {GetAvailablePeers[e] : e \in 1 .. Len(GetAvailablePeers)} \ {Self}
        acked == IF success THEN selected_peers ELSE {}
    IN /\ nret.op = "store_file" /\ nret.pc = "distribute" /\ nret.i = i
       /\ held' = [h \in (DOMAIN held) \cup (acked \X {i}) |->
                      IF h[1] \in acked /\ h[2] = i THEN shard ELSE held[h]]
       /\ nret' = PipelinePos(IF i + 1 < N THEN "distribute" ELSE "register",
                              IF i + 1 < N THEN i + 1 ELSE 0,
                              [nret.shard_locations EXCEPT
                                 ![i] = IF success THEN Append(@, Remote) ELSE @])
       /\ UNCHANGED <<stored, manifest, notNode>>

\* Step 7: the FileMetadata is built and registered with the coordinator,
\* store_file returns the file hash.
RegisterFileMetadata ==
    /\ nret.op = "store_file" /\ nret.pc = "register"
    /\ manifest' = ManifestOf(stored.ciphertext, Len(stored.plaintext), nret.shard_locations)
    /\ nret' = [nret EXCEPT !.pc = "done", !.i = 0]
    /\ UNCHANGED <<stored, held, notNode>>

Persist == \E i \in ShardIdx : SaveShard(i)

Distribute == \E i \in ShardIdx, success \in BOOLEAN : DistributeShard(i, success)

Register == RegisterFileMetadata

PipelineNext == Persist \/ Distribute \/ Register

PipelineSpec == PipelineInit /\ [][PipelineNext]_vars

\* ------------------------------------------------------------------ shard store after store_file
\* store_file has returned the file hash.
StoreFileDone == nret.op = "store_file" /\ nret.pc = "done"

\* Calls on the StorageManager of the node for shards of the stored file; the
\* puts are of a one-byte shard 0, with and without expiry.
PutStored ==
    /\ StoreFileDone
    /\ \E e \in Expiries : StoreShard(manifest.file_hash, 0, <<1>>, e)
    /\ UNCHANGED notStore

GetStored ==
    /\ StoreFileDone
    /\ \E i \in ShardIdx : RetrieveShard(manifest.file_hash, i)
    /\ UNCHANGED notStore

DeleteStored ==
    /\ StoreFileDone
    /\ \E i \in ShardIdx : DeleteShard(manifest.file_hash, i)
    /\ UNCHANGED notStore

GcStored == StoreFileDone /\ GarbageCollect /\ UNCHANGED notStore

PersistNext == PipelineNext \/ PutStored \/ GetStored \/ DeleteStored \/ GcStored

PersistSpec == PipelineInit /\ [][PersistNext]_vars

\* ------------------------------------------------------------------ dispersion
\* _distribute_shards, one send_shard at a time.  nret is the position in
\* store_file: the peers discovered, the shard index i of the outer loop, the
\* position e in selected_peers of the inner loop, the shard_locations built
\* so far and, per shard, the peers send_shard was called for.
PeerB == "peerB"
Peers == {Self, Remote, PeerB}

RECURSIVE PeerListsOver(_)
\* The duplicate-free lists over a set of peers.
PeerListsOver(S) ==
    {<< >>} \cup UNION {{<<p>> \o l : l \in PeerListsOver(S \ {p})} : p \in S}

\* peers[:redundancy]
SelectedPeers(peers) == SubSeq(peers, 1, IF Len(peers) < redundancy_factor
                                         THEN Len(peers) ELSE redundancy_factor)

\* Step 5 done for every shard, _distribute_shards entered and the peers
\* discovered.
DisperseInit ==
    /\ \E ciphertext \in BytesOfLen(Len(<<1>>) + TagLen) :
          /\ stored = [plaintext |-> <<1>>, password |-> "pw", salt |-> "salt1",
                       nonce |-> "nonce1", ciphertext |-> ciphertext]
          /\ held = [h \in {Self} \X ShardIdx |-> Encode(ciphertext)[h[2] + 1]]
    /\ manifest = [file_hash |-> Nothing]
    /\ \E peers \in PeerListsOver(Peers) :
          nret = [op |-> "store_file",
                  pc |-> IF peers = << >> THEN "register" ELSE "send_shard",
                  i |-> 0, e |-> 1, peers |-> peers,
                  shard_locations |-> [j \in ShardIdx |-> <<Self>>],
                  attempted |-> [j \in ShardIdx |-> << >>]]
    /\ StoreInit /\ PutsIdle /\ TasksIdle
    /\ TransferIdle
    /\ CoordInit
    /\ DiscoveryIdle
    /\ AuditIdle

\* What self.transfer.send_shard ends in.
SendOutcomes == {"True", "False", "raises"}

\* One turn of the inner loop of _distribute_shards: a selected peer other
\* than the storing node is sent the shard and is appended to the shard's
\* locations when send_shard returns success; an exception is logged.
SendShard(outcome) ==
    LET selected_peers == SelectedPeers(nret.peers)
        peer == selected_peers[nret.e]
        shard == Encode(stored.ciphertext)[nret.i + 1]
        sent == peer # Self
        success == sent /\ outcome = "True"
        last == nret.e >= Len(selected_peers)
    IN /\ nret.op = "store_file" /\ nret.pc = "send_shard"
       /\ nret' = [nret EXCEPT
                     !.attempted[nret.i] = IF sent THEN Append(@, peer) ELSE @,
                     !.shard_locations[nret.i] = IF success THEN Append(@, peer) ELSE @,
                     !.e = IF last THEN 1 ELSE nret.e + 1,
                     !.i = IF last /\ nret.i + 1 < N THEN nret.i + 1
                           ELSE IF last THEN 0 ELSE nret.i,
                     !.pc = IF last /\ nret.i + 1 >= N THEN "register" ELSE "send_shard"]
       /\ held' = IF success
                  THEN [h \in (DOMAIN held) \cup {<<peer, nret.i>>} |->
                           IF h = <<peer, nret.i>> THEN shard ELSE held[h]]
                  ELSE held
       /\ UNCHANGED <<stored, manifest>>

Send ==
    /\ \E outcome \in SendOutcomes : SendShard(outcome)
    /\ UNCHANGED notNode

DisperseNext == Send \/ Register

DisperseSpec == DisperseInit /\ [][DisperseNext]_vars

\* ------------------------------------------------------------------ coordinator
\* The rows of tables peers and files are kept in insertion order.  Of a
\* PeerInfo the fields the handlers read back are modelled; ip_address, port
\* and capabilities are copied like available_storage and left out.
PeerIds == {Self, Remote}
Statuses == {"online", "offline"}
Reputations == {0, 1}
LastSeens == {1, 2}
CoordFiles == {"f1"}
\* shard_locations of a FileMetadata: shard index -> list of peer ids
LocationMaps == [{0} -> {<< >>, <<Self>>, <<Remote>>, <<Self, Remote>>}] \cup {<< >>}
\* The public keys a registration carries; the second key is offered for one
\* peer id, the handler treating all ids alike.
PublicKeys == {"pk", "pk2"}
PeerInfos ==
    {p \in [peer_id : PeerIds, public_key : PublicKeys, available_storage : {1},
            reputation : Reputations, status : Statuses, last_seen : LastSeens] :
        p.public_key = "pk" \/ p.peer_id = Self}
MinReputations == {0, 1}
Limits == 0 .. 2
\* db.commit() succeeds or raises
Commits == {"ok", "raises"}

\* query(...).filter(...).first(): position of the first row that matches, 0 if none
First(table, Match(_)) ==
    IF \E e \in 1 .. Len(table) : Match(table[e])
    THEN CHOOSE e \in 1 .. Len(table) :
            Match(table[e]) /\ \A d \in 1 .. (e - 1) : ~Match(table[d])
    ELSE 0

\* a register_peer that overwrites every column of an existing row, the
\* public key included
RegisterPeerWithKey(peer_info, commit) ==
    LET existing == First(db.peers, LAMBDA p : p.peer_id = peer_info.peer_id)
    IN IF commit = "raises"
       THEN /\ resp' = [op |-> "register_peer", request |-> peer_info, status |-> 500]
            /\ UNCHANGED db
       ELSE /\ db' = [db EXCEPT !.peers =
                        IF existing # 0 THEN [@ EXCEPT ![existing] = peer_info]
                        ELSE Append(@, peer_info)]
            /\ resp' = [op |-> "register_peer", request |-> peer_info, status |-> 200]

\* POST /register
RegisterPeer(peer_info, commit) ==
    LET existing == First(db.peers, LAMBDA p : p.peer_id = peer_info.peer_id)
    IN IF commit = "raises"
       THEN /\ resp' = [op |-> "register_peer", request |-> peer_info, status |-> 500]
            /\ UNCHANGED db
       ELSE /\ db' = [db EXCEPT !.peers =
                        IF existing # 0
                        THEN [@ EXCEPT ![existing] =
                                [peer_info EXCEPT !.public_key = db.peers[existing].public_key]]
                        ELSE Append(@, peer_info)]
            /\ resp' = [op |-> "register_peer", request |-> peer_info, status |-> 200]

\* POST /file/register.  Of the FileMetadata the file hash and the shard
\* locations are modelled; the other columns are written on insert only.
RegisterFile(file_hash, shard_locations, commit) ==
    LET existing == First(db.files, LAMBDA f : f.file_hash = file_hash)
        request == [file_hash |-> file_hash, shard_locations |-> shard_locations]
    IN IF commit = "raises"
       THEN /\ resp' = [op |-> "register_file", request |-> request, status |-> 500]
            /\ UNCHANGED db
       ELSE /\ db' = [db EXCEPT !.files =
                        IF existing # 0
                        THEN [@ EXCEPT ![existing].shard_locations = shard_locations]
                        ELSE Append(@, request)]
            /\ resp' = [op |-> "register_file", request |-> request, status |-> 200]

\* GET /file/{file_hash}/locations
GetFileLocations(file_hash) ==
    LET file_meta == First(db.files, LAMBDA f : f.file_hash = file_hash)
    IN /\ resp' = IF file_meta = 0
                  THEN [op |-> "get_file_locations", request |-> file_hash, status |-> 404]
                  ELSE [op |-> "get_file_locations", request |-> file_hash, status |-> 200,
                        shard_locations |-> db.files[file_meta].shard_locations]
       /\ UNCHANGED db

\* The first rows of a table, at most limit of them (.limit(limit).all())
Limit(table, limit) == SubSeq(table, 1, IF Len(table) < limit THEN Len(table) ELSE limit)

\* The dict list_peers returns for a row: no status, no public_key.
PeerDict(p) ==
    [peer_id |-> p.peer_id, available_storage |-> p.available_storage,
     reputation |-> p.reputation, last_seen |-> p.last_seen]

\* The rows GET /peers selects, without the filter on status
ListedPeersAnyStatus(peers, min_reputation, limit) ==
    Limit(SelectSeq(peers, LAMBDA p : p.reputation >= min_reputation), limit)

\* The rows GET /peers selects
ListedPeers(peers, min_reputation, limit) ==
    Limit(SelectSeq(peers, LAMBDA p : p.reputation >= min_reputation /\ p.status = "online"),
          limit)

\* GET /peers
ListPeers(min_reputation, limit) ==
    LET peers == ListedPeers(db.peers, min_reputation, limit)
    IN /\ resp' = [op |-> "list_peers",
                   request |-> [min_reputation |-> min_reputation, limit |-> limit],
                   status |-> 200,
                   body |-> [e \in 1 .. Len(peers) |-> PeerDict(peers[e])]]
       /\ UNCHANGED db

\* DELETE /peer/{peer_id}
DeregisterPeer(peer_id) ==
    LET peer == First(db.peers, LAMBDA p : p.peer_id = peer_id)
    IN IF peer = 0
       THEN /\ resp' = [op |-> "deregister_peer", request |-> peer_id, status |-> 404]
            /\ UNCHANGED db
       ELSE /\ db' = [db EXCEPT !.peers[peer].status = "offline"]
            /\ resp' = [op |-> "deregister_peer", request |-> peer_id, status |-> 200]

PostRegister ==
    /\ \E peer_info \in PeerInfos, commit \in Commits : RegisterPeer(peer_info, commit)
    /\ UNCHANGED notCoord

PostFileRegister ==
    /\ \E file_hash \in CoordFiles, shard_locations \in LocationMaps, commit \in Commits :
          RegisterFile(file_hash, shard_locations, commit)
    /\ UNCHANGED notCoord

GetLocations ==
    /\ \E file_hash \in CoordFiles : GetFileLocations(file_hash)
    /\ UNCHANGED notCoord

GetPeers ==
    /\ \E min_reputation \in MinReputations, limit \in Limits : ListPeers(min_reputation, limit)
    /\ UNCHANGED notCoord

DeletePeer ==
    /\ \E peer_id \in PeerIds : DeregisterPeer(peer_id)
    /\ UNCHANGED notCoord

CoordNext == PostRegister \/ PostFileRegister \/ GetLocations \/ GetPeers \/ DeletePeer

CoordSpec == Init /\ [][CoordNext]_vars

\* ------------------------------------------------------------------ discovery
\* Reputation is counted in halves: 1 is the 0.5 of
\* DiscoveryService.__init__(min_reputation = 0.5).
min_reputation == 1
\* Seconds below which a cached peer is served from the cache.
CacheSeconds == 300
\* timedelta.seconds is the seconds part of a duration, the days taken out.
DaySeconds == 86400
\* The steps datetime.now() moves by between two calls.
Advances == {1, CacheSeconds - 1, DaySeconds}

\* The peers table the coordinator holds while the discovery service runs.
DiscoveryTables ==
    {<<[peer_id |-> Self, public_key |-> "pk", available_storage |-> 1,
        reputation |-> 1, status |-> s1, last_seen |-> 1],
       [peer_id |-> Remote, public_key |-> "pk", available_storage |-> 2,
        reputation |-> 1, status |-> s2, last_seen |-> 1],
       [peer_id |-> PeerB, public_key |-> "pk", available_storage |-> 1,
        reputation |-> r3, status |-> "online", last_seen |-> 1]>> :
     s1 \in Statuses, s2 \in Statuses, r3 \in Reputations}

DiscoveryInit ==
    /\ StoreInit /\ PutsIdle /\ TasksIdle /\ NodeIdle /\ TransferIdle /\ DiscoveryIdle /\ AuditIdle
    /\ db \in [peers : DiscoveryTables, files : {<< >>}, audit_logs : {<< >>}]
    /\ resp = [op |-> "none"]

\* GET {coordinator_url}/peers as a client sees it: the JSON list, or nothing
\* when the request fails or the status is not 200.
GetPeersResponse(min_rep, limit, net) ==
    LET peers == ListedPeers(db.peers, min_rep, limit)
    IN IF net = "ok"
       THEN [ok |-> TRUE, peers |-> [e \in 1 .. Len(peers) |-> PeerDict(peers[e])]]
       ELSE [ok |-> FALSE, peers |-> << >>]

\* a cache that is replaced by the list returned, the other entries dropped
RememberOnly(known_peers, peers) ==
    [id \in {peers[e].peer_id : e \in 1 .. Len(peers)} |->
        [peer |-> peers[CHOOSE e \in 1 .. Len(peers) : peers[e].peer_id = id],
         discovered_at |-> clock.now]]

\* known_peers after `known_peers[peer['peer_id']] = {**peer, 'discovered_at': now}`
\* for every peer of the list
Remember(known_peers, peers) ==
    [id \in (DOMAIN known_peers) \cup {peers[e].peer_id : e \in 1 .. Len(peers)} |->
        IF \E e \in 1 .. Len(peers) : peers[e].peer_id = id
        THEN LET last == CHOOSE e \in 1 .. Len(peers) :
                            /\ peers[e].peer_id = id
                            /\ \A d \in (e + 1) .. Len(peers) : peers[d].peer_id # id
             IN [peer |-> peers[last], discovered_at |-> clock.now]
        ELSE known_peers[id]]

\* DiscoveryService.discover_peers: the list returned and the service after it
DiscoverPeers(net) ==
    LET r == GetPeersResponse(min_reputation, 100, net)
    IN IF r.ok
       THEN [peers |-> r.peers,
             discovery |-> [known_peers |-> Remember(discovery.known_peers, r.peers),
                            last_discovery |-> clock.now]]
       ELSE [peers |-> << >>, discovery |-> discovery]

\* The list comprehension of find_peers_for_storage: p['status'] is read for
\* every peer that is not excluded and raises KeyError when the dict has none.
AvailablePeers(all_peers, exclude_peers) ==
    IF \E e \in 1 .. Len(all_peers) :
          all_peers[e].peer_id \notin exclude_peers /\ "status" \notin DOMAIN all_peers[e]
    THEN [ok |-> FALSE, peers |-> << >>]
    ELSE [ok |-> TRUE,
          peers |-> SelectSeq(all_peers, LAMBDA p : p.peer_id \notin exclude_peers
                                                    /\ p.status = "online")]

\* (reputation, available_storage) of a comes before that of b in the
\* descending order, or ties with it
KeyAtLeast(a, b) ==
    \/ a.reputation > b.reputation
    \/ a.reputation = b.reputation /\ a.available_storage >= b.available_storage

RECURSIVE SortDescending(_)
\* list.sort(key = ..., reverse = True): stable, equal keys keep their order
SortDescending(peers) ==
    IF peers = << >> THEN << >>
    ELSE LET n == Len(peers)
             front == SortDescending(SubSeq(peers, 1, n - 1))
             x == peers[n]
             ahead == SelectSeq(front, LAMBDA p : KeyAtLeast(p, x))
             behind == SelectSeq(front, LAMBDA p : ~KeyAtLeast(p, x))
         IN ahead \o <<x>> \o behind

\* random.sample(population, k): every list of k elements at distinct positions
Samples(population, k) ==
    {[e \in 1 .. k |-> population[f[e]]] :
        f \in {g \in [1 .. k -> 1 .. Len(population)] :
                  \A d, e \in 1 .. k : g[d] = g[e] => d = e}}

\* DiscoveryService.find_peers_for_storage: the lists it can return
FindPeersForStorage(all_peers, num_peers, exclude_peers) ==
    LET a == AvailablePeers(all_peers, exclude_peers)
        available_peers == SortDescending(a.peers)
        top_peers == SubSeq(available_peers, 1,
                            IF Len(available_peers) < num_peers * 2
                            THEN Len(available_peers) ELSE num_peers * 2)
    IN IF all_peers = << >> \/ ~a.ok THEN {<< >>}
       ELSE IF Len(available_peers) <= num_peers THEN {available_peers}
       ELSE Samples(top_peers, IF num_peers < Len(top_peers)
                               THEN num_peers ELSE Len(top_peers))

\* (datetime.now() - cached['discovered_at']).seconds
Seconds(delta) == delta % DaySeconds

\* The cache check of get_peer_info
IsRecent(cached) == Seconds(clock.now - cached.discovered_at) < CacheSeconds

\* DiscoveryService.get_peer_info
GetPeerInfo(peer_id, net) ==
    LET cached == discovery.known_peers[peer_id]
        r == GetPeersResponse(0, 1000, net)
        found == First(r.peers, LAMBDA p : p.peer_id = peer_id)
        call_ == [op |-> "get_peer_info", peer_id |-> peer_id, now |-> clock.now,
                  known |-> peer_id \in DOMAIN discovery.known_peers,
                  discovered_at |-> IF peer_id \in DOMAIN discovery.known_peers
                                    THEN cached.discovered_at ELSE NoTime]
    IN IF peer_id \in DOMAIN discovery.known_peers /\ IsRecent(cached)
       THEN /\ dret' = call_ @@ [source |-> "cache", value |-> <<cached.peer>>]
            /\ UNCHANGED discovery
       ELSE IF r.ok /\ found # 0
       THEN /\ dret' = call_ @@ [source |-> "coordinator", value |-> <<r.peers[found]>>]
            /\ discovery' = [discovery EXCEPT !.known_peers =
                               Remember(@, <<r.peers[found]>>)]
       ELSE /\ dret' = call_ @@ [source |-> "coordinator", value |-> << >>]
            /\ UNCHANGED discovery

\* What the network does to a request.
Nets == {"ok", "fails"}

Discover ==
    /\ \E net \in Nets :
          LET d == DiscoverPeers(net)
          IN /\ discovery' = d.discovery
             /\ dret' = [op |-> "discover_peers", net |-> net, value |-> d.peers]
    /\ UNCHANGED <<clock, coordVars, notDisc>>

FindStorage ==
    /\ \E net \in Nets, num_peers \in 1 .. 2, exclude_peers \in {{}, {Self}, Peers} :
          LET d == DiscoverPeers(net)
          IN /\ discovery' = d.discovery
             /\ \E selected \in FindPeersForStorage(d.peers, num_peers, exclude_peers) :
                   dret' = [op |-> "find_peers_for_storage", num_peers |-> num_peers,
                            exclude_peers |-> exclude_peers, net |-> net, value |-> selected]
    /\ UNCHANGED <<clock, coordVars, notDisc>>

Lookup ==
    /\ \E net \in Nets, peer_id \in Peers : GetPeerInfo(peer_id, net)
    /\ UNCHANGED <<clock, coordVars, notDisc>>

\* Time passes.
Tick ==
    /\ clock.ticks < MaxTicks
    /\ \E d \in Advances : clock' = [now |-> clock.now + d, ticks |-> clock.ticks + 1]
    /\ UNCHANGED <<discovery, dret, coordVars, notDisc>>

DiscoveryNext == Discover \/ FindStorage \/ Lookup \/ Tick

DiscoverySpec == DiscoveryInit /\ [][DiscoveryNext]_vars

\* ------------------------------------------------------------------ audit
\* Digests, signatures and peer ids are strings, as in the code.  A shard is
\* named by a letter; Stored is the shard the prover was given.
AuditNonces == {"n1", "n2"}
Stored == "S"
AuditShards == {Stored, "T"}
PrivateKeys == {"skA", "skE"}
\* The public key of a key pair.
PublicKey(private_key) == IF private_key = "skA" THEN "pkA" ELSE "pkE"
\* hashlib.sha256(nonce.encode() + shard_data).hexdigest()
ProofHash(nonce, shard_data) == "sha256(" \o nonce \o shard_data \o ")"
\* hashlib.sha256(shard_data).hexdigest()
MerkleRoot(shard_data) == "sha256(" \o shard_data \o ")"
\* CryptoUtils.sign_data
SignData(data, private_key) == "sig(" \o private_key \o "," \o data \o ")"
\* CryptoUtils.verify_signature
VerifySignature(data, signature, public_key) ==
    \E private_key \in PrivateKeys :
        PublicKey(private_key) = public_key /\ signature = SignData(data, private_key)

\* AuditService.respond_to_challenge
RespondToChallenge(challenge, shard_data, private_key) ==
    IF "file_hash" \notin DOMAIN challenge
    THEN [ok |-> FALSE, error |-> "KeyError"]
    ELSE [ok |-> TRUE,
          proof |-> [file_hash |-> challenge.file_hash,
                     proof |-> ProofHash(challenge.nonce, shard_data),
                     merkle_root |-> MerkleRoot(shard_data),
                     timestamp |-> 1,
                     signature |-> SignData(ProofHash(challenge.nonce, shard_data),
                                            private_key)]]

\* The ProofResponse bodies sent for verification: signed by either key, or
\* with a peer id in the signature field.
AuditProofs ==
    {[file_hash |-> "f1", proof |-> ProofHash(n, s), merkle_root |-> MerkleRoot(s),
      timestamp |-> 1, signature |-> sig] :
        <<n, s, sig>> \in {t \in AuditNonces \X AuditShards \X
                                 ({Remote} \cup {SignData(ProofHash(m, u), k) :
                                      <<m, u, k>> \in AuditNonces \X AuditShards \X PrivateKeys}) :
                              t[3] = Remote \/ \E k \in PrivateKeys :
                                  t[3] = SignData(ProofHash(t[1], t[2]), k)}}

\* The peers that register: the prover under its id and key, and peers that
\* take for peer_id the signature of a proof the prover once gave.
AuditPeerInfos ==
    [peer_id : {Remote, SignData(ProofHash("n1", Stored), "skA"),
                SignData(ProofHash("n2", "T"), "skA")},
     public_key : {"pkA"}, available_storage : {1}, reputation : {1},
     status : {"online"}, last_seen : {1}]

\* POST /audit/challenge at the coordinator (create_challenge)
ChallengeCreated(request) ==
    [challenge_id |-> MerkleRoot(request.nonce), nonce |-> request.nonce,
     timestamp |-> request.timestamp]

\* POST /audit/verify at the coordinator (verify_proof)
VerifyProofHandler(proof) ==
    LET peer == First(db.peers, LAMBDA p : p.peer_id = proof.signature)
    IN IF peer = 0
       THEN [status |-> 200, json |-> [valid |-> FALSE], db |-> db]
       ELSE [status |-> 200, json |-> [valid |-> TRUE],
             db |-> [db EXCEPT !.audit_logs =
                        Append(@, [file_hash |-> proof.file_hash,
                                   peer_id |-> db.peers[peer].peer_id,
                                   challenge |-> "stored_challenge",
                                   proof |-> proof.proof, is_valid |-> TRUE])]]

\* A POST to the coordinator: the route's handler, 404 for a path it has not.
CoordPost(path, body) ==
    IF path = "/audit/challenge"
    THEN [status |-> 200, json |-> ChallengeCreated(body), db |-> db]
    ELSE IF path = "/audit/verify"
    THEN VerifyProofHandler(body)
    ELSE [status |-> 404, json |-> [detail |-> "Not Found"], db |-> db]

\* AuditService.create_challenge: the coordinator's answer, << >> for None
CreateChallenge(file_hash, peer_id, nonce) ==
    LET challenge == [file_hash |-> file_hash, peer_id |-> peer_id, nonce |-> nonce,
                      timestamp |-> 1]
        response == CoordPost("/challenge/create", challenge)
    IN IF response.status = 200 THEN <<response.json>> ELSE << >>

\* AuditService.verify_proof: the value returned and the database after it
VerifyProof(proof, public_key) ==
    IF ~VerifySignature(proof.proof, proof.signature, public_key)
    THEN [value |-> FALSE, db |-> db, asked |-> FALSE]
    ELSE LET response == CoordPost("/challenge/verify", proof)
         IN [value |-> IF response.status = 200 THEN response.json.valid ELSE FALSE,
             db |-> response.db, asked |-> TRUE]

\* AuditService._get_peer_info: the peer's dict of GET /peers, << >> for None
AuditGetPeerInfo(peer_id) ==
    LET peers == ListedPeers(db.peers, 0, 1000)
        found == First(peers, LAMBDA p : p.peer_id = peer_id)
    IN IF found = 0 THEN << >> ELSE <<PeerDict(peers[found])>>

\* AuditService.audit_peer.  The peer answers the challenge with
\* respond_to_challenge over the shard it holds and its private key.
AuditPeer(peer_id, file_hash, nonce, shard_data, private_key) ==
    LET challenge == CreateChallenge(file_hash, peer_id, nonce)
        answer == RespondToChallenge(challenge[1], shard_data, private_key)
        peer_info == AuditGetPeerInfo(peer_id)
        v == VerifyProof(answer.proof, peer_info[1].public_key)
        call_ == [op |-> "audit_peer", peer_id |-> peer_id, nonce |-> nonce,
                  shard_data |-> shard_data, private_key |-> private_key,
                  registered |-> \E e \in 1 .. Len(db.peers) :
                                    /\ db.peers[e].peer_id = peer_id
                                    /\ db.peers[e].status = "online"]
        False(at) == /\ aret' = call_ @@ [value |-> FALSE, at |-> at]
                     /\ UNCHANGED <<audit_history, db>>
    IN IF challenge = << >> THEN False("create_challenge")
       ELSE IF ~answer.ok THEN False("peer response")
       ELSE IF peer_info = << >> THEN False("_get_peer_info")
       ELSE IF "public_key" \notin DOMAIN peer_info[1] THEN False("KeyError")
       ELSE /\ aret' = call_ @@ [value |-> v.value, at |-> "verify_proof"]
            /\ audit_history' = Append(audit_history,
                                       [peer_id |-> peer_id, file_hash |-> file_hash,
                                        passed |-> v.value])
            /\ db' = v.db

\* Peers register with the coordinator.
AuditRegister ==
    /\ \E peer_info \in AuditPeerInfos : RegisterPeer(peer_info, "ok")
    /\ aret' = [op |-> "none"]
    /\ UNCHANGED <<audit_history, notAudit>>

\* A verifier posts a ChallengeRequest to the coordinator.
PostAuditChallenge ==
    /\ \E nonce \in AuditNonces :
          resp' = [op |-> "create_challenge", status |-> 200,
                   json |-> ChallengeCreated([file_hash |-> "f1", nonce |-> nonce,
                                              timestamp |-> 1])]
    /\ aret' = [op |-> "none"]
    /\ UNCHANGED <<db, audit_history, notAudit>>

\* A ProofResponse is posted to the coordinator in answer to the challenge
\* with nonce n2 for the shard Stored.
PostAuditVerify ==
    /\ Len(db.audit_logs) < MaxAudits
    /\ \E proof \in AuditProofs :
          LET r == VerifyProofHandler(proof)
          IN /\ db' = r.db
             /\ resp' = [op |-> "verify_proof", request |-> proof, status |-> r.status,
                         valid |-> r.json.valid]
    /\ aret' = [op |-> "none"]
    /\ UNCHANGED <<audit_history, notAudit>>

\* AuditService.verify_proof is called with a proof and a public key.
VerifyCall ==
    /\ Len(db.audit_logs) < MaxAudits
    /\ \E proof \in AuditProofs, private_key \in PrivateKeys :
          LET v == VerifyProof(proof, PublicKey(private_key))
          IN /\ aret' = [op |-> "verify_proof", proof |-> proof,
                         public_key |-> PublicKey(private_key),
                         asked |-> v.asked, value |-> v.value]
             /\ db' = v.db
    /\ resp' = [op |-> "none"]
    /\ UNCHANGED <<audit_history, notAudit>>

\* AuditService.audit_peer is called for the prover, which answers over the
\* shard it holds or another, signing with its key or another.
AuditPeerCall ==
    /\ Len(audit_history) < MaxAudits /\ Len(db.audit_logs) < MaxAudits
    /\ \E nonce \in AuditNonces, shard_data \in AuditShards, private_key \in PrivateKeys :
          AuditPeer(Remote, "f1", nonce, shard_data, private_key)
    /\ resp' = [op |-> "none"]
    /\ UNCHANGED notAudit

AuditNext == AuditRegister \/ PostAuditChallenge \/ PostAuditVerify \/ VerifyCall \/ AuditPeerCall

AuditSpec == Init /\ [][AuditNext]_vars

\* ------------------------------------------------------------------ transfer service
\* Shard bytes sent and bodies received.
Bodies == {<<1>>, <<2>>}
\* Hashes passed as shard_hash / expected_hash and echoed by peers.
Hashes == {Sha256(b) : b \in Bodies}
\* expected_hash = None
NoHash == << >>

\* What one POST /shard/upload can end in: the session raises, the transfer
\* times out, a status other than 200, or 200 and a JSON body that echoes a
\* shard_hash (or none).
UploadResponses ==
    {[kind |-> k, status |-> 0, shard_hash |-> NoHash] : k \in {"ClientError", "TimeoutError"}}
        \cup {[kind |-> "http", status |-> 500, shard_hash |-> NoHash]}
        \cup {[kind |-> "http", status |-> 200, shard_hash |-> h] : h \in Hashes \cup {NoHash}}

\* What one GET /shard/download can end in.
DownloadResponses ==
    {[kind |-> k, status |-> 0, body |-> << >>] : k \in {"ClientError", "TimeoutError"}}
        \cup {[kind |-> "http", status |-> 404, body |-> << >>]}
        \cup {[kind |-> "http", status |-> 200, body |-> b] : b \in Bodies}

\* upload_shard that takes any 200 response for an acknowledgement
UploadVerifiedAny200(response, shard_hash) ==
    response.kind = "http" /\ response.status = 200

\* upload_shard: response.status == 200 and result.get('shard_hash') == shard_hash
UploadVerified(response, shard_hash) ==
    response.kind = "http" /\ response.status = 200 /\ response.shard_hash = shard_hash

\* download_shard without the comparison of the computed hash
DownloadUnverified(shard_data, expected_hash) == TRUE

\* download_shard: the body passes when no expected_hash is given or its
\* SHA-256 hex digest equals expected_hash
DownloadVerified(shard_data, expected_hash) ==
    expected_hash = NoHash \/ Sha256(shard_data) = expected_hash

\* a backoff that counts the attempts from 1
BackoffFromOne(attempt) == 2 ^ (attempt + 1)

\* asyncio.sleep(2 ** attempt)
Backoff(attempt) == 2 ^ attempt

\* Calls of the service that have returned: each one counted once, as an
\* upload, a download or a failure.
CallsReturned ==
    transfer_stats.uploads + transfer_stats.downloads + transfer_stats.failures

\* A call of upload_shard or download_shard enters its loop.
StartCall(op, data, hash) ==
    /\ call.status = "returned"
    /\ CallsReturned < MaxCalls
    /\ call' = [op |-> op, data |-> data, hash |-> hash, attempt |-> 0,
                log |-> << >>, slept |-> << >>, status |-> "running",
                value |-> [kind |-> "pending", data |-> << >>]]
    /\ UNCHANGED transfer_stats

\* a loop that counts a failure at every failed attempt
FailedAttemptCounted(response, backoff, none) ==
    /\ call' = [call EXCEPT !.log = Append(@, response),
                            !.slept = IF backoff /\ call.attempt + 1 < max_retries
                                      THEN Append(@, Backoff(call.attempt)) ELSE @,
                            !.attempt = @ + 1,
                            !.status = IF call.attempt + 1 < max_retries
                                       THEN "running" ELSE "returned",
                            !.value = IF call.attempt + 1 < max_retries THEN @ ELSE none]
    /\ transfer_stats' = [transfer_stats EXCEPT !.failures = @ + 1]

\* The attempt failed: back off and go round again, or leave the loop after
\* the last attempt, count a failure and return False / None.
FailedAttempt(response, backoff, none) ==
    IF call.attempt + 1 < max_retries
    THEN /\ call' = [call EXCEPT !.log = Append(@, response),
                                 !.slept = IF backoff THEN Append(@, Backoff(call.attempt)) ELSE @,
                                 !.attempt = @ + 1]
         /\ UNCHANGED transfer_stats
    ELSE /\ call' = [call EXCEPT !.log = Append(@, response),
                                 !.attempt = @ + 1,
                                 !.status = "returned",
                                 !.value = none]
         /\ transfer_stats' = [transfer_stats EXCEPT !.failures = @ + 1]

\* TransferService.upload_shard, one turn of its loop
UploadAttempt(response) ==
    /\ call.op = "upload" /\ call.status = "running"
    /\ IF UploadVerified(response, call.hash)
       THEN /\ transfer_stats' = [transfer_stats EXCEPT !.uploads = @ + 1,
                                                        !.bytes_sent = @ + Len(call.data)]
            /\ call' = [call EXCEPT !.log = Append(@, response),
                                    !.status = "returned",
                                    !.value = [kind |-> "True", data |-> << >>]]
       ELSE FailedAttempt(response, TRUE, [kind |-> "False", data |-> << >>])

\* TransferService.download_shard, one turn of its loop: a body that fails
\* the hash check takes `continue`, any other failure falls to the backoff.
DownloadAttempt(response) ==
    /\ call.op = "download" /\ call.status = "running"
    /\ IF response.kind = "http" /\ response.status = 200
       THEN IF DownloadVerified(response.body, call.hash)
            THEN /\ transfer_stats' = [transfer_stats EXCEPT
                                         !.downloads = @ + 1,
                                         !.bytes_received = @ + Len(response.body)]
                 /\ call' = [call EXCEPT !.log = Append(@, response),
                                         !.status = "returned",
                                         !.value = [kind |-> "bytes", data |-> response.body]]
            ELSE FailedAttempt(response, FALSE, [kind |-> "None", data |-> << >>])
       ELSE FailedAttempt(response, TRUE, [kind |-> "None", data |-> << >>])

StartUpload ==
    /\ \E shard_data \in Bodies, shard_hash \in Hashes : StartCall("upload", shard_data, shard_hash)
    /\ UNCHANGED notTransfer

StartDownload ==
    /\ \E expected_hash \in Hashes \cup {NoHash} : StartCall("download", << >>, expected_hash)
    /\ UNCHANGED notTransfer

UploadStep ==
    /\ \E response \in UploadResponses : UploadAttempt(response)
    /\ UNCHANGED notTransfer

DownloadStep ==
    /\ \E response \in DownloadResponses : DownloadAttempt(response)
    /\ UNCHANGED notTransfer

TransferNext == StartUpload \/ StartDownload \/ UploadStep \/ DownloadStep

\* Every request ends (answer, error or the ClientTimeout) and every sleep
\* ends: a call that is in its loop takes its next turn.
TransferSpec ==
    Init /\ [][TransferNext]_vars /\ WF_vars(UploadStep) /\ WF_vars(DownloadStep)

\* ------------------------------------------------------------------ batch transfers
PeerUrls == {"pA", "pB"}
\* The shards of the file in a batch and their hex digests.
BatchShards == <<<<1>>, <<2>>>>
BatchHashes == <<Sha256(<<1>>), Sha256(<<2>>)>>
BatchIdx == 0 .. (Len(BatchShards) - 1)
\* The digests of a file whose shard 0 has no bytes.
EmptyShardHashes == <<Sha256(<< >>), Sha256(<<2>>)>>
\* The shard_hashes lists a batch download is given: the prefixes of the
\* full list, and the list of the file with the zero-length shard.
ShardHashLists ==
    {SubSeq(BatchHashes, 1, n) : n \in 0 .. Len(BatchHashes)} \cup {EmptyShardHashes}

\* upload_shard as a function of the responses its attempts get: "True" at
\* the first acknowledgement, "False" after max_retries failures, and
\* "Exception" when an attempt ends in an exception that `except Exception`
\* does not catch (asyncio.CancelledError).
UploadShard(shard_hash, run) ==
    LET stops(e) == UploadVerified(run[e], shard_hash) \/ run[e].kind = "CancelledError"
    IN IF \E e \in 1 .. max_retries : stops(e)
       THEN LET first == CHOOSE e \in 1 .. max_retries :
                            stops(e) /\ \A d \in 1 .. (e - 1) : ~stops(d)
            IN IF run[first].kind = "CancelledError" THEN "Exception" ELSE "True"
       ELSE "False"

\* download_shard as a function of the responses its attempts get: the body
\* of the first 200 response that passes the check, or None
DownloadShard(expected_hash, run) ==
    LET passes(e) == /\ run[e].kind = "http" /\ run[e].status = 200
                     /\ DownloadVerified(run[e].body, expected_hash)
    IN IF \E e \in 1 .. max_retries : passes(e)
       THEN [kind |-> "bytes",
             data |-> run[CHOOSE e \in 1 .. max_retries :
                            passes(e) /\ \A d \in 1 .. (e - 1) : ~passes(d)].body]
       ELSE [kind |-> "None", data |-> << >>]

\* Runs of responses the uploads to / the downloads from one peer get in a
\* batch.
UploadRuns ==
    LET err == [kind |-> "ClientError", status |-> 0, shard_hash |-> NoHash]
        ack(h) == [kind |-> "http", status |-> 200, shard_hash |-> h]
        cancelled == [kind |-> "CancelledError", status |-> 0, shard_hash |-> NoHash]
    IN {<<err, err, err>>, <<cancelled, err, err>>}
          \cup {<<ack(h), err, err>> : h \in Hashes}
          \cup {<<err, err, ack(h)>> : h \in Hashes}

DownloadRuns ==
    LET err == [kind |-> "TimeoutError", status |-> 0, body |-> << >>]
        ok(b) == [kind |-> "http", status |-> 200, body |-> b]
    IN {<<err, err, err>>} \cup {<<ok(b), err, err>> : b \in Bodies \cup {<< >>}}
                           \cup {<<ok(<<2>>), ok(<<1>>), err>>}

RECURSIVE UploadTasks(_)
\* batch_upload_shards, the task list: one upload per peer and shard index,
\* in the order of shard_distribution.items() and of each index list.
UploadTasks(shard_distribution) ==
    IF shard_distribution = << >> THEN << >>
    ELSE LET peer_url == Head(shard_distribution)[1]
             shard_indices == Head(shard_distribution)[2]
         IN [t \in 1 .. Len(shard_indices) |-> <<shard_indices[t], peer_url>>]
               \o UploadTasks(Tail(shard_distribution))

\* a result test that takes everything but False for a success
SucceededUnlessFalse(result) == result # "False"

\* `if result is True`
Succeeded(result) == result = "True"

\* batch_upload_shards, the result map: per shard index the peers whose
\* upload returned True, in task order.
SuccessfulUploads(tasks, results) ==
    LET good == {t \in 1 .. Len(tasks) : Succeeded(results[t])}
        at(shard_idx) == {t \in good : tasks[t][1] = shard_idx}
        PeersOf(shard_idx) ==
            LET pos == SelectSeq([t \in 1 .. Len(tasks) |-> t], LAMBDA t : t \in at(shard_idx))
            IN [e \in 1 .. Len(pos) |-> tasks[pos[e]][2]]
    IN [shard_idx \in {tasks[t][1] : t \in good} |-> PeersOf(shard_idx)]

RECURSIVE SumLens(_, _)
SumLens(tasks, ts) ==
    IF ts = {} THEN 0
    ELSE LET t == CHOOSE t \in ts : TRUE
         IN Len(BatchShards[tasks[t][1] + 1]) + SumLens(tasks, ts \ {t})

\* TransferService.batch_upload_shards: `results` is what each upload_shard
\* task of the gather ended in ("True", "False", or "Exception" when the
\* task raised; gather(return_exceptions=True) hands the exception over).
BatchUploadShards(shard_distribution, results) ==
    LET tasks == UploadTasks(shard_distribution)
        true == {t \in 1 .. Len(tasks) : results[t] = "True"}
        false == {t \in 1 .. Len(tasks) : results[t] = "False"}
    IN /\ call.status = "returned"
       /\ CallsReturned < MaxCalls
       /\ transfer_stats' = [transfer_stats EXCEPT
                               !.uploads = @ + Cardinality(true),
                               !.bytes_sent = @ + SumLens(tasks, true),
                               !.failures = @ + Cardinality(false)]
       /\ call' = [op |-> "batch_upload", status |-> "returned", tasks |-> tasks,
                   results |-> results, value |-> SuccessfulUploads(tasks, results)]

\* Index lists a peer is given in shard_distribution.
IndexLists == {<< >>, <<0>>, <<1>>, <<0, 1>>}

BatchUpload ==
    /\ \E la \in IndexLists, lb \in IndexLists :
         LET shard_distribution == <<<<"pA", la>>, <<"pB", lb>>>>
             tasks == UploadTasks(shard_distribution)
         IN \E runs \in [PeerUrls -> UploadRuns] :
               BatchUploadShards(shard_distribution,
                   [t \in 1 .. Len(tasks) |->
                       UploadShard(BatchHashes[tasks[t][1] + 1], runs[tasks[t][2]])])
    /\ UNCHANGED notTransfer

RECURSIVE TryPeerUrls(_, _, _, _)
\* batch_download_shards, the alternative peers of a shard, tried in order
\* until one download returns non-empty bytes; the results of the downloads
\* made, in order.
TryPeerUrls(shard_idx, peer_urls, expected_hash, runs) ==
    IF peer_urls = << >> THEN << >>
    ELSE LET shard_data == DownloadShard(expected_hash, runs[Head(peer_urls)])
         IN IF shard_data.kind = "bytes" /\ shard_data.data # << >>
            THEN <<shard_data>>
            ELSE <<shard_data>> \o TryPeerUrls(shard_idx, Tail(peer_urls), expected_hash, runs)

\* The downloads batch_download_shards makes for one shard: the first peer in
\* the gather, the others after it when the first gave no bytes.
DownloadsOf(shard_idx, peer_urls, shard_hashes, runs) ==
    LET expected_hash == IF shard_idx < Len(shard_hashes)
                         THEN shard_hashes[shard_idx + 1] ELSE NoHash
        result == DownloadShard(expected_hash, runs[peer_urls[1]])
    IN IF peer_urls = << >> THEN << >>
       ELSE IF result.kind = "bytes" THEN <<result>>
       ELSE <<result>> \o TryPeerUrls(shard_idx, Tail(peer_urls), expected_hash, runs)

RECURSIVE CountDownloads(_, _)
\* The counters after the downloads of a batch: each download that returned
\* bytes counts as a download, each that returned None as a failure.
CountDownloads(st, results) ==
    IF results = << >> THEN st
    ELSE CountDownloads(
            IF Head(results).kind = "bytes"
            THEN [st EXCEPT !.downloads = @ + 1,
                            !.bytes_received = @ + Len(Head(results).data)]
            ELSE [st EXCEPT !.failures = @ + 1],
            Tail(results))

RECURSIVE Flatten(_, _)
Flatten(f, idxs) ==
    IF idxs = {} THEN << >>
    ELSE LET i == CHOOSE i \in idxs : \A j \in idxs : i <= j
         IN f[i] \o Flatten(f, idxs \ {i})

\* TransferService.batch_download_shards
BatchDownloadShards(shard_locations, shard_hashes, runs) ==
    LET made == [shard_idx \in DOMAIN shard_locations |->
                    DownloadsOf(shard_idx, shard_locations[shard_idx], shard_hashes, runs)]
        got == {shard_idx \in DOMAIN made :
                   /\ made[shard_idx] # << >>
                   /\ made[shard_idx][Len(made[shard_idx])].kind = "bytes"
                   /\ \/ Len(made[shard_idx]) = 1
                      \/ made[shard_idx][Len(made[shard_idx])].data # << >>}
    IN /\ call.status = "returned"
       /\ CallsReturned < MaxCalls
       /\ transfer_stats' = CountDownloads(transfer_stats, Flatten(made, DOMAIN made))
       /\ call' = [op |-> "batch_download", status |-> "returned",
                   shard_locations |-> shard_locations,
                   shard_hashes |-> shard_hashes, runs |-> runs, made |-> made,
                   value |-> [shard_idx \in got |->
                                 made[shard_idx][Len(made[shard_idx])].data]]

\* Peer lists a shard index is given in shard_locations.
PeerLists == {<< >>, <<"pA">>, <<"pA", "pB">>}

BatchDownload ==
    /\ \E shard_locations \in [BatchIdx -> PeerLists],
          shard_hashes \in ShardHashLists,
          runs \in [PeerUrls -> DownloadRuns] :
            BatchDownloadShards(shard_locations, shard_hashes, runs)
    /\ UNCHANGED notTransfer

BatchNext == BatchUpload \/ BatchDownload

BatchSpec == Init /\ [][BatchNext]_vars

\* ------------------------------------------------------------------ claims on the node
\* The last call was retrieve_file with password p and at least shards_required
\* shard indices could be collected with the manifest's hash.
Retrieved(p) ==
    /\ nret.op = "retrieve"
    /\ nret.password = p
    /\ Cardinality(nret.verifiable) >= K

\* C1: for every non-empty plaintext x and password p, whatever the ciphertext
\* bytes, store(x, p) yields a file hash and, with every shard still
\* available, retrieve of the stored file with p returns exactly x.
C1_RoundTrip ==
    /\ nret.op = "store" /\ nret.arg # << >> => nret.status = "ok"
    /\ Retrieved(stored.password) /\ nret.verifiable = ShardIdx
          => nret.status = "ok" /\ nret.value = stored.plaintext

\* C2: after any n - k shard indices are lost on every peer, retrieve with the
\* right password succeeds and returns the stored plaintext.
C2_SurvivesLoss ==
    Retrieved(stored.password) /\ Cardinality(nret.verifiable) = K
        => nret.status = "ok" /\ nret.value = stored.plaintext

\* C3: a retrieve that can collect fewer than k shards fails with
\* InsufficientShards and calls neither decode nor decrypt_file; decode fails
\* with InsufficientShards when given fewer than k non-absent shards.
C3_InsufficientShards ==
    /\ nret.op = "retrieve" /\ Cardinality(nret.verifiable) < K
          => /\ nret.status = "error"
             /\ nret.error = "InsufficientShards"
             /\ \A e \in 1 .. Len(nret.calls) : nret.calls[e] \notin {"decode", "decrypt_file"}
    /\ nret.op = "decode" /\ Len(SelectSeq(nret.arg, LAMBDA e : e[2] # NoShard)) < K
          => nret.status = "error" /\ nret.error = "InsufficientShards"

\* n - k + 1 shard indices are lost everywhere and a retrieve failed for it.
C3_Witness ==
    /\ nret.op = "retrieve"
    /\ Cardinality(nret.verifiable) = K - 1
    /\ Cardinality({h[2] : h \in DOMAIN held}) = K - 1
    /\ nret.error = "InsufficientShards"

\* C4: retrieve with a password other than the one the file was stored with
\* fails with the Integrity error, the error of a corrupted ciphertext.
C4_WrongPassword ==
    \A p \in Passwords \ {stored.password} :
        Retrieved(p) => nret.status = "error" /\ nret.error = "Integrity"

\* ------------------------------------------------------------------ claims on the store
\* A step that is a completed call of store operation `op`.
StoreCall(op) == now' = now + 1 /\ ret'.op = op

\* C5: total_bytes of the statistics row equals the sum of size_bytes over
\* all index rows, after every operation of any sequence of put, get, delete
\* and gc, a put that repeats or replaces a stored (file_hash, shard_index)
\* included.
C5_TotalBytesIsSum == stats.total_bytes = SumSizes(rows)

\* C6: every .shard file has exactly one index row with its (file_hash,
\* shard_index, shard_hash), and every index row has its .shard file.
C6_FilesMatchRows ==
    /\ \A name \in DOMAIN disk :
         Cardinality({r \in rows : /\ r.file_hash = name[1]
                                   /\ r.shard_index = name[2]
                                   /\ r.shard_hash = name[3]}) = 1
    /\ \A r \in rows : FileName(r.file_hash, r.shard_index, r.shard_hash) \in DOMAIN disk

\* C7: a put fails with QuotaExceeded exactly when used + len(bytes) > quota,
\* used being total_bytes of the statistics row as the put finds it; a put
\* that fails so writes no file, no row and leaves the statistics alone.
C7_QuotaExceeded ==
    [][StoreCall("put") =>
         /\ (ret'.outcome = "QuotaExceeded")
              <=> (stats.total_bytes + Len(ret'.data) > max_storage_bytes)
         /\ (ret'.outcome = "QuotaExceeded") => UNCHANGED <<disk, rows, stats>>]_vars

\* C7 witness: a put was refused for the quota by a store that holds shards.
C7_Witness ==
    /\ ret.op = "put"
    /\ ret.outcome = "QuotaExceeded"
    /\ rows # {}
    /\ stats.total_bytes + Len(ret.data) > max_storage_bytes

\* C8: total_bytes <= quota in every state reachable by sequential put, get,
\* delete and gc calls.
C8_WithinQuota == stats.total_bytes <= max_storage_bytes

\* C8 witness: a successful put filled the quota exactly.
C8_Witness ==
    /\ ret.op = "put"
    /\ ret.outcome = "ok"
    /\ Len(ret.data) > 0
    /\ stats.total_bytes = max_storage_bytes

\* C9: a disk or index failure in the middle of a put leaves the shards
\* directory and the index (rows and statistics) exactly as they were before
\* the put.
C9_FailedPutLeavesNoTrace ==
    [][(StoreCall("put") /\ ret'.outcome \in {"IOError", "DBError"})
         => UNCHANGED <<disk, rows, stats>>]_vars

\* C10: get returns bytes only if their SHA-256 equals the hash in the name of
\* the file read; when the bytes of the file read do not match its name, get
\* fails and leaves every piece of store state unchanged; when they match,
\* the row of that (file_hash, shard_index) has last_verified = now afterwards.
C10_GetVerifies ==
    [][StoreCall("get") =>
         /\ (ret'.outcome = "ok") =>
              /\ Sha256(ret'.value) = NameHash(ret'.filename)
              /\ ret'.value = disk[ret'.filename]
         /\ (ret'.filename # Nothing
               /\ Sha256(disk[ret'.filename]) # NameHash(ret'.filename)) =>
              /\ ret'.outcome = "CorruptShard"
              /\ UNCHANGED <<disk, rows, stats>>
         /\ (ret'.outcome = "ok") =>
              \E r \in rows' : /\ r.file_hash = ret'.file_hash
                               /\ r.shard_index = ret'.shard_index
                               /\ r.shard_hash = Sha256(ret'.value)
                               /\ r.last_verified = now]_vars

\* The rows / the files of every pair other than (file_hash, shard_index).
OtherRows(rs, file_hash, shard_index) ==
    {r \in rs : ~(r.file_hash = file_hash /\ r.shard_index = shard_index)}

OtherFiles(d, file_hash, shard_index) ==
    [name \in (DOMAIN d) \ Matching(d, file_hash, shard_index) |-> d[name]]

\* C11: delete of a stored shard removes its file and its row and takes one
\* shard and the shard's size off the statistics; a delete right after a
\* successful delete of the same pair returns false and changes nothing; files
\* and rows of other pairs are never touched.
C11_Delete ==
    [][StoreCall("delete") =>
        LET f == ret'.file_hash
            i == ret'.shard_index
            mine == {r \in rows : r.file_hash = f /\ r.shard_index = i}
        IN /\ mine # {} /\ Matching(disk, f, i) # {} =>
                /\ ret'.value = TRUE
                /\ Matching(disk', f, i) = {}
                /\ {r \in rows' : r.file_hash = f /\ r.shard_index = i} = {}
                /\ stats'.total_shards = stats.total_shards - 1
                /\ stats'.total_bytes = stats.total_bytes - SumSizes(mine)
           /\ (ret.op = "delete" /\ ret.value = TRUE
                 /\ ret.file_hash = f /\ ret.shard_index = i) =>
                /\ ret'.value = FALSE
                /\ UNCHANGED <<disk, rows, stats>>
           /\ OtherRows(rows', f, i) = OtherRows(rows, f, i)
           /\ OtherFiles(disk', f, i) = OtherFiles(disk, f, i)]_vars

\* The shard files of a set of rows.
FilesOf(rs) == {FileName(r.file_hash, r.shard_index, r.shard_hash) : r \in rs}

\* C12: gc removes exactly the rows that expired before now and their files,
\* returns their number, leaves every other row and file as it was, and takes
\* exactly their number and total size off the statistics.
C12_Gc ==
    [][StoreCall("gc") =>
        LET expired == Expired(rows, now)
        IN /\ rows' = rows \ expired
           /\ disk' = [name \in (DOMAIN disk) \ FilesOf(expired) |-> disk[name]]
           /\ ret'.value = Cardinality(expired)
           /\ stats'.total_shards = stats.total_shards - Cardinality(expired)
           /\ stats'.total_bytes = stats.total_bytes - SumSizes(expired)]_vars

\* ------------------------------------------------------------------ claims on the store pipeline
\* C13: once store_file has returned, every shard it persisted locally has an
\* index row in the shard store and is counted in total_shards and
\* total_bytes, and a get of it that finds its file returns the shard's bytes.
C13_PersistedShardsHeld ==
    StoreFileDone =>
        LET shards == Encode(stored.ciphertext)
        IN /\ ret.op = "none" =>
                /\ \A i \in ShardIdx :
                      \E r \in rows : /\ r.file_hash = manifest.file_hash
                                      /\ r.shard_index = i
                                      /\ r.size_bytes = Len(shards[i + 1])
                /\ stats.total_shards = N
                /\ stats.total_bytes = SumSizes(rows)
           /\ \A i \in ShardIdx :
                (/\ ret.op = "get" /\ ret.shard_index = i
                 /\ Matching(disk, manifest.file_hash, i)
                       = {FileName(manifest.file_hash, i, ShardHash(shards[i + 1]))})
                    => ret.value = shards[i + 1]

\* The shard file store_file writes for shard i is in the shards directory.
PersistedLocally(i) ==
    /\ <<Self, i>> \in DOMAIN held
    /\ FileName(ShardHash(stored.ciphertext), i, ShardHash(Encode(stored.ciphertext)[i + 1]))
          \in DOMAIN disk

\* C20: a shard is on a remote peer only after it was persisted locally, and
\* the manifest is published only after all n shards were persisted locally
\* with self listed in shard_locations[i] for every i.
C20_PersistBeforePublish ==
    /\ \A i \in ShardIdx : <<Remote, i>> \in DOMAIN held => PersistedLocally(i)
    /\ manifest.file_hash # Nothing =>
          \A i \in ShardIdx :
             /\ PersistedLocally(i)
             /\ i \in DOMAIN manifest.shard_locations
             /\ \E e \in 1 .. Len(manifest.shard_locations[i]) :
                   manifest.shard_locations[i][e] = Self

\* The manifest is published and a remote peer took shard 0.
C20_Witness ==
    /\ manifest.file_hash # Nothing
    /\ <<Remote, 0>> \in DOMAIN held
    /\ StoreFileDone

\* ------------------------------------------------------------------ claims on the transfer service
\* The response is a 200 whose echoed shard_hash is the submitted one.
Acknowledged(response, shard_hash) ==
    response.kind = "http" /\ response.status = 200 /\ response.shard_hash = shard_hash

\* C14: upload returns True only if some attempt got a 200 response echoing
\* the submitted shard_hash; when every attempt ends in an error, a timeout,
\* another status or another hash it returns False.
C14_UploadVerified ==
    call.op = "upload" /\ call.status = "returned" =>
        /\ call.value.kind \in {"True", "False"}
        /\ call.value.kind = "True"
              <=> \E e \in 1 .. Len(call.log) : Acknowledged(call.log[e], call.hash)

\* An upload that succeeded on a later attempt, after a 200 with another hash.
C14_Witness ==
    /\ call.op = "upload" /\ call.status = "returned"
    /\ call.value.kind = "True"
    /\ Len(call.log) > 1
    /\ call.log[1].status = 200

\* The waits of an upload so far: 2^attempt after each failed attempt that
\* was not the last one.
ExpectedWaits(failed) ==
    [e \in 1 .. (IF failed < max_retries THEN failed ELSE max_retries - 1) |-> 2 ^ (e - 1)]

\* C15: upload makes at most max_retries attempts, makes none after the
\* first acknowledged one, has waited 2^attempt seconds after each failed
\* attempt but the last, returns False exactly when max_retries attempts have
\* failed, and every upload returns.
C15_UploadRetries ==
    /\ [](call.op = "upload" =>
            LET failed == Cardinality({e \in 1 .. Len(call.log) :
                                          ~Acknowledged(call.log[e], call.hash)})
            IN /\ Len(call.log) <= max_retries
               /\ \A e \in 1 .. Len(call.log) - 1 : ~Acknowledged(call.log[e], call.hash)
               /\ call.slept = ExpectedWaits(failed)
               /\ (call.status = "returned" /\ call.value.kind = "False")
                     <=> failed = max_retries)
    /\ (call.op = "upload" /\ call.status = "running")
          ~> (call.op = "upload" /\ call.status = "returned")

\* An upload gave up after max_retries failed attempts and two waits.
C15_Witness ==
    /\ call.op = "upload" /\ call.status = "returned"
    /\ call.value.kind = "False"
    /\ Len(call.log) = max_retries
    /\ call.slept = <<1, 2>>

\* A step that is one turn of the loop of download_shard.
DownloadTurn ==
    /\ call.op = "download" /\ call.status = "running"
    /\ Len(call'.log) = Len(call.log) + 1

\* C16: a download with an expected_hash never returns bytes with another
\* SHA-256; a body that fails the check is not returned and not counted as a
\* download, and is followed by the next attempt or, on the last attempt, by
\* a counted failure.
C16_DownloadVerified ==
    [][DownloadTurn /\ call.hash # NoHash =>
        LET response == call'.log[Len(call'.log)]
        IN /\ call'.value.kind = "bytes" => Sha256(call'.value.data) = call.hash
           /\ (response.status = 200 /\ Sha256(response.body) # call.hash) =>
                /\ call'.value.kind # "bytes"
                /\ transfer_stats'.downloads = transfer_stats.downloads
                /\ transfer_stats'.bytes_received = transfer_stats.bytes_received
                /\ IF call.attempt + 1 < max_retries
                   THEN /\ call'.status = "running"
                        /\ call'.attempt = call.attempt + 1
                        /\ UNCHANGED transfer_stats
                   ELSE /\ call'.status = "returned"
                        /\ call'.value.kind = "None"
                        /\ transfer_stats'.failures = transfer_stats.failures + 1]_vars

\* A download returned verified bytes after a body that failed the check.
C16_Witness ==
    /\ call.op = "download" /\ call.status = "returned"
    /\ call.hash # NoHash
    /\ call.value.kind = "bytes"
    /\ call.log[1].status = 200
    /\ Sha256(call.log[1].body) # call.hash

\* C17: after every failed attempt of a download that is not the last,
\* whatever made it fail, the download waits 2^attempt seconds.
C17_DownloadBackoff ==
    [][(/\ DownloadTurn
        /\ call'.value.kind # "bytes"
        /\ call.attempt + 1 < max_retries)
          => call'.slept = Append(call.slept, 2 ^ call.attempt)]_vars

\* C18: every entry (index, bytes) of the map batch_download returns has
\* SHA-256(bytes) = shard_hashes[index].
C18_BatchDownloadVerified ==
    call.op = "batch_download" =>
        \A shard_idx \in DOMAIN call.value :
            /\ shard_idx < Len(call.shard_hashes)
            /\ Sha256(call.value[shard_idx]) = call.shard_hashes[shard_idx + 1]

\* C19: batch_upload lists a peer under a shard index exactly when the upload
\* of that shard to that peer returned True, once per such upload, and has no
\* entry for an index without a successful upload, whatever the other
\* uploads ended in.
C19_BatchUploadResult ==
    call.op = "batch_upload" =>
        LET won(shard_idx, peer_url) ==
                {t \in 1 .. Len(call.tasks) :
                    call.tasks[t] = <<shard_idx, peer_url>> /\ call.results[t] = "True"}
            listed(shard_idx, peer_url) ==
                IF shard_idx \in DOMAIN call.value
                THEN {e \in 1 .. Len(call.value[shard_idx]) :
                         call.value[shard_idx][e] = peer_url}
                ELSE {}
        IN /\ \A shard_idx \in BatchIdx, peer_url \in PeerUrls :
                Cardinality(listed(shard_idx, peer_url)) = Cardinality(won(shard_idx, peer_url))
           /\ \A shard_idx \in DOMAIN call.value :
                shard_idx \in BatchIdx /\ call.value[shard_idx] # << >>

\* A batch in which one upload succeeded, one failed and one raised, and a
\* shard index got no peer.
C19_Witness ==
    /\ call.op = "batch_upload"
    /\ {call.results[t] : t \in 1 .. Len(call.results)} = {"True", "False", "Exception"}
    /\ DOMAIN call.value = {0}
    /\ \E t \in 1 .. Len(call.tasks) : call.tasks[t][1] = 1

\* ------------------------------------------------------------------ claims on dispersion
\* Elements of a sequence.
Range(seq) == {seq[e] : e \in 1 .. Len(seq)}

\* Steps 6 and 7 as written: once store_file is done the manifest is
\* published and lists, for every shard, self and only remote peers whose
\* send_shard returned success.
DispersionAsWritten ==
    nret.op = "store_file" /\ nret.pc = "done" =>
        /\ manifest.file_hash = ShardHash(stored.ciphertext)
        /\ \A i \in ShardIdx :
              /\ Self \in Range(manifest.shard_locations[i])
              /\ \A peer \in Range(manifest.shard_locations[i]) \ {Self} :
                    <<peer, i>> \in DOMAIN held

\* C21: whatever the remote placements end in, store publishes the manifest
\* and returns the file hash, and the published locations of every shard
\* contain self.
C21_BestEffortStore ==
    nret.op = "store" =>
        /\ nret.status = "ok"
        /\ nret.value = manifest.file_hash
        /\ \A i \in ShardIdx : Self \in Range(manifest.shard_locations[i])

\* C22: for every shard, placement is attempted on at most
\* redundancy_factor - 1 peers, pairwise distinct, none of them the storing
\* node, wherever the storing node stands in the discovered list.
C22_AttemptsBounded ==
    nret.op = "store_file" =>
        \A i \in ShardIdx :
            LET attempted == nret.attempted[i]
            IN /\ Len(attempted) <= redundancy_factor - 1
               /\ Cardinality(Range(attempted)) = Len(attempted)
               /\ Self \notin Range(attempted)

\* ------------------------------------------------------------------ claims on the coordinator
\* C23: across registrations of the same file, the peers recorded for a shard
\* index never shrink: a location once registered stays in the file's
\* shard_locations, which is what GET /file/{file_hash}/locations returns.
C23_LocationsNeverShrink ==
    [][\A e \in 1 .. Len(db.files) :
          /\ e <= Len(db'.files)
          /\ db'.files[e].file_hash = db.files[e].file_hash
          /\ \A i \in DOMAIN db.files[e].shard_locations :
                /\ i \in DOMAIN db'.files[e].shard_locations
                /\ Range(db.files[e].shard_locations[i])
                      \subseteq Range(db'.files[e].shard_locations[i])]_vars

\* The row of table peers a peer id has.
PeerRow(peer_id) == db.peers[First(db.peers, LAMBDA p : p.peer_id = peer_id)]

\* C24: the coordinator holds at most one record per peer_id, and right
\* after a successful registration the peer's status is online and its
\* last_seen is the value supplied.
C24_RegisterUpserts ==
    /\ \A d, e \in 1 .. Len(db.peers) : db.peers[d].peer_id = db.peers[e].peer_id => d = e
    /\ resp.op = "register_peer" /\ resp.status = 200 =>
          /\ PeerRow(resp.request.peer_id).status = "online"
          /\ PeerRow(resp.request.peer_id).last_seen = resp.request.last_seen

\* C25: GET /peers returns only peers whose status is online and whose
\* reputation is at least min_reputation, at most limit of them; a
\* deregistered peer is offline, and DELETE changes nothing but that
\* peer's status.
C25_ListOnlineOnly ==
    /\ [](resp.op = "list_peers" =>
            /\ Len(resp.body) <= resp.request.limit
            /\ \A e \in 1 .. Len(resp.body) :
                  /\ \E d \in 1 .. Len(db.peers) : db.peers[d].peer_id = resp.body[e].peer_id
                  /\ PeerRow(resp.body[e].peer_id).status = "online"
                  /\ PeerRow(resp.body[e].peer_id).reputation >= resp.request.min_reputation)
    /\ [](resp.op = "deregister_peer" /\ resp.status = 200 =>
            PeerRow(resp.request).status = "offline")
    /\ [][resp'.op = "deregister_peer" =>
            /\ Len(db'.peers) = Len(db.peers)
            /\ \A e \in 1 .. Len(db.peers) :
                  IF db.peers[e].peer_id = resp'.request
                  THEN db'.peers[e] = [db.peers[e] EXCEPT !.status = db'.peers[e].status]
                  ELSE db'.peers[e] = db.peers[e]
            /\ db'.files = db.files /\ db'.audit_logs = db.audit_logs]_vars

\* GET /peers has answered with a peer while another peer with enough
\* reputation is left out because it was deregistered.
C25_Witness ==
    /\ resp.op = "list_peers"
    /\ Len(resp.body) = 1
    /\ resp.request.limit = 2
    /\ \E e \in 1 .. Len(db.peers) :
          /\ db.peers[e].status = "offline"
          /\ db.peers[e].reputation >= resp.request.min_reputation

\* ------------------------------------------------------------------ claims on discovery
\* C26: find_peers_for_storage(n, exclude) returns a duplicate-free list of
\* peers that are online and not excluded: all the candidates when there are
\* at most n, and otherwise exactly n of the first 2n candidates in the
\* order (reputation descending, available_storage descending).
C26_FindStoragePeers ==
    dret.op = "find_peers_for_storage" /\ dret.net = "ok" =>
        LET candidates == SortDescending(
                SelectSeq(db.peers, LAMBDA p : /\ p.status = "online"
                                               /\ p.reputation >= min_reputation
                                               /\ p.peer_id \notin dret.exclude_peers))
            Ids(peers) == {peers[e].peer_id : e \in 1 .. Len(peers)}
            n == dret.num_peers
        IN /\ Cardinality(Ids(dret.value)) = Len(dret.value)
           /\ Ids(dret.value) \subseteq Ids(candidates)
           /\ Len(candidates) <= n => Ids(dret.value) = Ids(candidates)
           /\ Len(candidates) > n =>
                 /\ Len(dret.value) = n
                 /\ Ids(dret.value) \subseteq
                       Ids(SubSeq(candidates, 1, IF Len(candidates) < 2 * n
                                                 THEN Len(candidates) ELSE 2 * n))

\* C27: get_peer_info answers from the cache only when the cached entry was
\* discovered less than 300 s ago, whatever the age, a day or more included.
C27_CacheFreshOnly ==
    dret.op = "get_peer_info" /\ dret.source = "cache" =>
        dret.now - dret.discovered_at < CacheSeconds

\* ------------------------------------------------------------------ claims on the audit
\* C28: an audit of a peer that is registered, holds the challenged shard and
\* answers honestly, signing with its own key, passes: audit_peer returns
\* true and the audit is recorded as passed.
C28_HonestAuditPasses ==
    aret.op = "audit_peer" /\ aret.registered /\ aret.shard_data = Stored
                           /\ aret.private_key = "skA" =>
        /\ aret.value = TRUE
        /\ audit_history # << >>
        /\ audit_history[Len(audit_history)].passed

\* The proof a verification of the challenge with nonce n2 for the stored
\* shard expects.
Expected == ProofHash("n2", Stored)

\* C29: a proof validly signed by the prover but computed for another nonce
\* than the challenge's, or over other bytes than the stored shard, is never
\* accepted, neither by the coordinator nor by the audit service.
C29_ProofBound ==
    /\ resp.op = "verify_proof"
          /\ VerifySignature(resp.request.proof, resp.request.signature, "pkA")
          /\ resp.request.proof # Expected
          => ~resp.valid
    /\ aret.op = "verify_proof"
          /\ VerifySignature(aret.proof.proof, aret.proof.signature, aret.public_key)
          /\ aret.proof.proof # Expected
          => ~aret.value

\* ------------------------------------------------------------------ claims on the erasure codec
\* C30: for a non-empty byte string b whose last byte is not zero, encode(b)
\* is n shards of length ceil(len(b) / k) whose first k shards joined are b
\* followed by (k - len(b) mod k) mod k zero bytes, and decode of any k or
\* more of these shards, each with its index, returns b.
C30_CodecRoundTrip ==
    LET b == stored.ciphertext
        shards == Encode(b)
    IN b # << >> /\ b[Len(b)] # 0 =>
          /\ Len(shards) = N
          /\ \A j \in 1 .. N : Len(shards[j]) = (Len(b) + K - 1) \div K
          /\ Join(shards, K) = b \o Zeros((K - (Len(b) % K)) % K)
          /\ nret.op = "decode" /\ Len(SelectSeq(nret.arg, LAMBDA e : e[2] # NoShard)) >= K
                => nret.status = "ok" /\ nret.value = b

\* ------------------------------------------------------------------ claims on batch download
\* A peer delivers a shard when one of the max_retries responses of its run
\* is a 200 whose body has the expected digest.
Delivers(run, expected_hash) ==
    \E e \in 1 .. max_retries :
        /\ run[e].kind = "http" /\ run[e].status = 200
        /\ Sha256(run[e].body) = expected_hash

\* C31: batch_download returns every shard with a non-empty candidate list
\* of which some candidate delivers bytes matching shard_hashes[index], a
\* zero-length shard included; the candidates are tried in list order, each
\* only after the earlier ones failed, and none after the first success.
C31_BatchDownloadComplete ==
    call.op = "batch_download" =>
        \A shard_idx \in DOMAIN call.shard_locations :
            LET peer_urls == call.shard_locations[shard_idx]
                expected_hash == call.shard_hashes[shard_idx + 1]
                good == {e \in 1 .. Len(peer_urls) :
                            Delivers(call.runs[peer_urls[e]], expected_hash)}
                first == CHOOSE e \in good : \A d \in good : e <= d
            IN (peer_urls # << >> /\ shard_idx < Len(call.shard_hashes)) =>
                  /\ good # {} => shard_idx \in DOMAIN call.value
                  /\ Len(call.made[shard_idx]) =
                        IF good = {} THEN Len(peer_urls) ELSE first

\* ------------------------------------------------------------------ claims on the retrieve pipeline
\* The bytes the first listed host with a verifying copy of shard i holds.
FirstVerified(i) ==
    LET hosts == manifest.shard_locations[i]
        good == {e \in 1 .. Len(hosts) :
                    /\ <<hosts[e], i>> \in DOMAIN held
                    /\ ShardHash(held[<<hosts[e], i>>]) = manifest.shard_hashes[i + 1]}
    IN held[<<hosts[CHOOSE e \in good : \A d \in good : e <= d], i>>]

\* C32: in retrieve every shard handed to the erasure decoder has the hash
\* the manifest lists at its index, the shards handed over have pairwise
\* distinct indices and are at least k; bytes that fail the hash check are
\* discarded and the next listed host of the shard is tried, so a shard the
\* loop came to is taken from its first host with a verifying copy.
C32_DecoderInputVerified ==
    (nret.op = "retrieve" /\ "decode" \in Range(nret.calls)) =>
        LET shards == nret.arg
            idx == {shards[e][1] : e \in 1 .. Len(shards)}
        IN /\ \A e \in 1 .. Len(shards) :
                /\ shards[e][1] \in ShardIdx
                /\ ShardHash(shards[e][2]) = manifest.shard_hashes[shards[e][1] + 1]
                /\ shards[e][2] = FirstVerified(shards[e][1])
           /\ Cardinality(idx) = Len(shards)
           /\ Len(shards) >= K
           /\ \A i \in Verifiable : (\E j \in idx : i < j) => i \in idx

\* A retrieve that reached the decoder with a shard whose first listed host
\* holds damaged bytes, and that passed over an index no host could serve.
C32_Witness ==
    /\ nret.op = "retrieve" /\ "decode" \in Range(nret.calls)
    /\ \E e \in 1 .. Len(nret.arg) :
          LET i == nret.arg[e][1]
          IN /\ <<Self, i>> \in DOMAIN held
             /\ ShardHash(held[<<Self, i>>]) # manifest.shard_hashes[i + 1]
    /\ \E i \in ShardIdx \ Verifiable : \E e \in 1 .. Len(nret.arg) : i < nret.arg[e][1]

\* ------------------------------------------------------------------ claims on replacing puts
\* C33: for each (file_hash, shard_index) at most one shard file with the
\* prefix {file_hash}_{shard_index}_ exists after any sequence of puts, and a
\* get of the pair returns the bytes of its most recent successful put, as
\* seen by the get that follows the put directly, also when an earlier put
\* of the pair stored other bytes.
C33_OneFilePerPair ==
    /\ [](\A f \in FileHashes, i \in ShardIndices : Cardinality(Matching(disk, f, i)) <= 1)
    /\ [][(/\ ret.op = "put" /\ ret.outcome = "ok"
           /\ ret'.op = "get"
           /\ ret'.file_hash = ret.file_hash /\ ret'.shard_index = ret.shard_index)
             => (ret'.outcome = "ok" /\ ret'.value = ret.data)]_vars

\* C34: every successful put raises total_shards by exactly 1 and
\* total_bytes by exactly len(bytes), for every byte length, zero included,
\* together with its index row.
C34_PutCountsOne ==
    [][(ret'.op = "put" /\ ret'.outcome = "ok" /\ now' = now + 1)
         => /\ stats'.total_shards = stats.total_shards + 1
            /\ stats'.total_bytes = stats.total_bytes + Len(ret'.data)
            /\ \E r \in rows' : /\ r.file_hash = ret'.file_hash
                                /\ r.shard_index = ret'.shard_index
                                /\ r.size_bytes = Len(ret'.data)]_vars

\* ------------------------------------------------------------------ claims on concurrent puts
\* The calls started put shards of one byte or more, and two calls started
\* put different bytes for different files: no put replaces a row or repeats.
IndependentPuts ==
    /\ \A c \in Callers : puts[c].pc # "idle" => Len(puts[c].data) > 0
    /\ (\A c \in Callers : puts[c].pc # "idle") =>
          /\ puts[1].file_hash # puts[2].file_hash
          /\ puts[1].data # puts[2].data

\* C35: when two put calls on one store interleave at the granularity of
\* their steps (quota read, file write, index upsert, statistics update,
\* commit), total_bytes never exceeds the quota, and once both calls have
\* finished the statistics equal the sum over the index rows.
C35_ConcurrentPuts ==
    IndependentPuts =>
        /\ stats.total_bytes <= max_storage_bytes
        /\ (\A c \in Callers : puts[c].pc = "done") =>
              /\ stats.total_bytes = SumSizes(rows)
              /\ stats.total_shards = Cardinality(rows)

\* ------------------------------------------------------------------ claims on discovery and the coordinator's list
\* C36: when GET /peers of the coordinator returns at least one peer whose
\* peer_id is not excluded, find_peers_for_storage, fed the records as
\* list_peers produces them, returns a non-empty list of at most n of those
\* peers.
C36_FindStorageNonEmpty ==
    dret.op = "find_peers_for_storage" /\ dret.net = "ok" =>
        LET listed == ListedPeers(db.peers, min_reputation, 100)
            offered == {listed[e].peer_id : e \in 1 .. Len(listed)} \ dret.exclude_peers
        IN offered # {} =>
              /\ dret.value # << >>
              /\ Len(dret.value) <= dret.num_peers
              /\ {dret.value[e].peer_id : e \in 1 .. Len(dret.value)} \subseteq offered

\* C37: discover_peers updates the membership cache only on a successful
\* coordinator response: on success every returned peer is cached under its
\* peer_id with discovered_at = now, last_discovery is set to now and the
\* entries of peers absent from the response are kept unchanged; on a
\* non-200 response or an exception it returns an empty list and leaves the
\* cache and last_discovery unchanged.
C37_DiscoverUpdatesCache ==
    [][(dret'.op = "discover_peers" /\ clock' = clock) =>
          LET listed == ListedPeers(db.peers, min_reputation, 100)
              peers == [e \in 1 .. Len(listed) |-> PeerDict(listed[e])]
              ids == {peers[e].peer_id : e \in 1 .. Len(peers)}
          IN IF dret'.net = "ok"
             THEN /\ dret'.value = peers
                  /\ DOMAIN discovery'.known_peers = (DOMAIN discovery.known_peers) \cup ids
                  /\ \A e \in 1 .. Len(peers) :
                        discovery'.known_peers[peers[e].peer_id] =
                            [peer |-> peers[e], discovered_at |-> clock.now]
                  /\ \A id \in (DOMAIN discovery.known_peers) \ ids :
                        discovery'.known_peers[id] = discovery.known_peers[id]
                  /\ discovery'.last_discovery = clock.now
             ELSE /\ dret'.value = << >>
                  /\ discovery' = discovery]_vars

\* A successful discover_peers that returned peers while the cache held an
\* older entry of a peer the response does not list.
C37_Witness ==
    /\ dret.op = "discover_peers" /\ dret.net = "ok" /\ dret.value # << >>
    /\ discovery.last_discovery = clock.now
    /\ \E id \in DOMAIN discovery.known_peers :
          /\ \A e \in 1 .. Len(dret.value) : dret.value[e].peer_id # id
          /\ discovery.known_peers[id].discovered_at < clock.now

\* ------------------------------------------------------------------ claims on the background tasks
\* The loops taken alone: on an event loop that goes on running, every task
\* ticks again and again, its failing ticks included, and a tick changes
\* nothing of the other two tasks.
LoopsAsWritten ==
    /\ \A t \in TaskNames :
          [](background.launcher = "embedded" => <>(background.task[t].pc = "action"))
    /\ [][\A t \in TaskNames :
            (background.loop = "running" /\ background'.task[t].ticks # background.task[t].ticks)
               => \A u \in TaskNames \ {t} : background'.task[u] = background.task[u]]_vars

\* C38: each of the three background tasks (heartbeat, discovery, audit
\* sweep) of a started node keeps ticking forever: whatever its ticks so far
\* ended in, a next tick of the same task follows.
C38_TasksKeepTicking ==
    \A t \in TaskNames :
        [](background.loop # "none" => <>(background.task[t].pc = "action"))

\* ------------------------------------------------------------------ claims on the transfer counters
\* C39: every completed upload or download call changes the counters by
\* exactly one event, however many attempts it made: a successful upload
\* adds 1 to uploads and len(bytes) to bytes_sent, a successful download adds
\* 1 to downloads and len(bytes) to bytes_received, a failed call adds 1 to
\* failures and nothing else, and a turn that does not end the call changes
\* no counter, so that uploads + downloads + failures is the number of
\* completed calls.
C39_OneEventPerCall ==
    [][IF call.status = "running" /\ call'.status = "returned"
       THEN /\ CallsReturned' = CallsReturned + 1
            /\ transfer_stats' =
                  CASE call'.value.kind = "True" ->
                         [transfer_stats EXCEPT !.uploads = @ + 1,
                                                !.bytes_sent = @ + Len(call.data)]
                    [] call'.value.kind = "bytes" ->
                         [transfer_stats EXCEPT !.downloads = @ + 1,
                                                !.bytes_received = @ + Len(call'.value.data)]
                    [] OTHER -> [transfer_stats EXCEPT !.failures = @ + 1]
       ELSE transfer_stats' = transfer_stats]_vars

\* A call that succeeded on a later attempt has returned after a call that
\* failed: one success and one failure are counted.
C39_Witness ==
    /\ call.op \in {"upload", "download"} /\ call.status = "returned"
    /\ call.value.kind \in {"True", "bytes"}
    /\ Len(call.log) > 1
    /\ transfer_stats.failures = 1
    /\ transfer_stats.uploads + transfer_stats.downloads = 1

\* ------------------------------------------------------------------ claims on the registered key
\* C40: the public key the coordinator holds for a peer_id is the one
\* supplied at that peer_id's first registration: no later POST /register
\* for the peer_id, whatever public_key it carries, and no DELETE /peer
\* changes the stored public_key.
C40_PublicKeyKept ==
    [][/\ \A e \in 1 .. Len(db.peers) :
            /\ e <= Len(db'.peers)
            /\ db'.peers[e].peer_id = db.peers[e].peer_id
            /\ db'.peers[e].public_key = db.peers[e].public_key
       /\ \A e \in (Len(db.peers) + 1) .. Len(db'.peers) :
            /\ resp'.op = "register_peer"
            /\ db'.peers[e].peer_id = resp'.request.peer_id
            /\ db'.peers[e].public_key = resp'.request.public_key]_vars

\* A registration that carried another public key than the one held was
\* accepted: the row took its status and last_seen and kept its key.
C40_Witness ==
    /\ resp.op = "register_peer" /\ resp.status = 200
    /\ \E e \in 1 .. Len(db.peers) :
          /\ db.peers[e].peer_id = resp.request.peer_id
          /\ db.peers[e].public_key # resp.request.public_key
          /\ db.peers[e].last_seen = resp.request.last_seen
          /\ db.peers[e].status = resp.request.status

====
